---- MODULE Spec2Model ----
(***************************************************************************)
(* Attendance punch verification pipeline of jim-staffing                  *)
(* (server/src/routes/staffing.ts, second revision of the file, lines      *)
(* 317-1235; server/src/lib/staffingRateLimit.ts;                          *)
(* server/src/lib/staffingPunchSecurity.ts).                               *)
(*                                                                         *)
(* Time is in milliseconds.  Every handler is split at its awaits: one     *)
(* action per stretch of synchronous code between two awaits, so that two  *)
(* handlers can interleave exactly where the event loop lets them.         *)
(***************************************************************************)
EXTENDS Integers, Sequences, FiniteSets, TLC

VARIABLES now, ticks, events, tokens, userHits, ipHits, req,
          limiter, lastHit, agencyHits, reply, report, signature, pdfCache, pdf, answer, wifi, me

\* what the punch and token handlers never touch: a limiter instance on its
\* own and the value of its last hit, the limiters of the agency API and its
\* last reply, the last weekly reconstruction, the last answer of the
\* signature endpoint, the PDF cache of the agency API with the /timecard/pdf
\* requests under way and their answers in order, the last answer of the
\* agency API with the API keys of the deployment, the last evaluation
\* of the network channel, the last answer of GET /staffing/me/state
sideVars == <<limiter, lastHit, agencyHits, reply, report, signature, pdfCache, pdf, answer, wifi, me>>

vars == <<now, ticks, events, tokens, userHits, ipHits, req, sideVars>>


-----------------------------------------------------------------------------
(* Program constants *)

LUNCH_MS == 30 * 60 * 1000
TOKEN_TTL_MS == 12 * 60 * 60 * 1000
IDEMPOTENCY_WINDOW_MS == 24 * 60 * 60 * 1000
PUNCH_WINDOW_MS == 60000
USER_PUNCH_MAX == 10
IP_PUNCH_MAX == 30
TAKE_LIMIT == 500
RADIUS_MM == 1609344
MAX_ACCURACY_M == 200

NoTime == -1
NoId == 0
NoStr == ""

-----------------------------------------------------------------------------
(* Collaborators: contractor profiles and environment *)

Users == {"u1", "u2", "u3", "u4", "u5"}

NoProfile == [exists |-> FALSE, isActive |-> FALSE, employmentType |-> NoStr, agency |-> NoStr]

Profile(u) ==
  CASE u = "u1" -> [exists |-> TRUE, isActive |-> TRUE, employmentType |-> "STC", agency |-> "PROLOGISTIX"]
    [] u = "u2" -> [exists |-> TRUE, isActive |-> TRUE, employmentType |-> "LTC", agency |-> "STAFF_FORCE"]
    [] u = "u3" -> [exists |-> TRUE, isActive |-> FALSE, employmentType |-> "STC", agency |-> "PROLOGISTIX"]
    [] u = "u4" -> [exists |-> TRUE, isActive |-> TRUE, employmentType |-> "W2", agency |-> "PROLOGISTIX"]
    [] OTHER -> NoProfile

\* mutant: any active profile will do
Eligible_AnyType(u) ==
  LET profile == Profile(u)
  IN  profile.exists /\ profile.isActive

Eligible(u) ==
  LET profile == Profile(u)
  IN  /\ profile.exists
      /\ profile.isActive
      /\ profile.employmentType \in {"LTC", "STC"}

\* STAFFING_WIFI_ALLOWLIST_DISABLED, STAFFING_ALLOWED_EGRESS_IPS, STAFFING_WIFI_ALLOWLIST_BYPASS_USER_IDS
Env == [disabled |-> FALSE, allow |-> {"ipA"}, bypass |-> {"u2"}]

\* no evaluation of the network channel recorded yet
NoWifi == [call |-> 0, env |-> Env, userId |-> NoStr, email |-> NoStr, ip |-> NoStr,
           raw |-> NoStr, status |-> NoStr]

\* mutant: an empty allowlist lets every known address through
evalWifiAllowlistIn_EmptyOpen(env, ip) ==
  IF env.disabled THEN "DEV_BYPASS"
  ELSE IF ip = NoStr THEN "FAIL"
  ELSE IF env.allow = {} \/ ip \in env.allow THEN "PASS" ELSE "FAIL"

\* evalWifiAllowlist under the environment env; ip = NoStr when getClientIp gives null
evalWifiAllowlistIn(env, ip) ==
  IF env.disabled THEN "DEV_BYPASS"
  ELSE IF env.allow = {} THEN "FAIL"
  ELSE IF ip = NoStr THEN "FAIL"
  ELSE IF ip \in env.allow THEN "PASS" ELSE "FAIL"

\* shouldBypassWifiAllowlistForUser under env; email = NoStr when the session has none
shouldBypassIn(env, userId, email) ==
  \/ userId \in env.bypass
  \/ email # NoStr /\ email \in env.bypass

\* the wifi of the handlers: a FAIL of a user on the bypass list becomes DEV_BYPASS
wifiStatusIn(env, userId, email, ip) ==
  LET wifiRaw == evalWifiAllowlistIn(env, ip)
  IN  IF wifiRaw = "FAIL" /\ shouldBypassIn(env, userId, email) THEN "DEV_BYPASS" ELSE wifiRaw

evalWifiAllowlist(ip) == evalWifiAllowlistIn(Env, ip)

\* the sessions of the model carry no email
shouldBypassWifiAllowlistForUser(u) == shouldBypassIn(Env, u, NoStr)

WifiStatus(u, ip) ==
  LET wifiRaw == evalWifiAllowlist(ip)
  IN  IF wifiRaw = "FAIL" /\ shouldBypassWifiAllowlistForUser(u) THEN "DEV_BYPASS" ELSE wifiRaw

sha256Hex(x) == <<"sha256", x>>

-----------------------------------------------------------------------------
(* Event log: staffing_time_events, in insertion order.  id = position. *)

EventTypes == {"CLOCK_IN", "LUNCH_START", "LUNCH_END", "CLOCK_OUT"}

\* clientTimeDriftFlag is "null", "true" or "false"; clientTimeDriftMs is 0 when null
NoEvent ==
  [attempt |-> 0, userId |-> NoStr, agency |-> NoStr, type |-> NoStr, status |-> NoStr,
   reason |-> NoStr, serverTimestamp |-> NoTime, createdAt |-> NoTime,
   clientReportedTimestamp |-> NoTime, clientTimeDriftMs |-> 0, clientTimeDriftFlag |-> "null",
   verificationMethod |-> "none", deviceId |-> NoStr, idempotencyKey |-> NoStr,
   punchTokenId |-> NoId, signedAt |-> NoTime, signaturePngBase64 |-> NoStr]

byServerTimestamp(a, b) == a.serverTimestamp < b.serverTimestamp

isOK(e) == e.status = "OK"

\* prisma.staffingTimeEvent.findMany({ where: { userId }, orderBy: { serverTimestamp: 'asc' }, take: 500 })
findManyEvents(log, userId) ==
  LET mine == SelectSeq(log, LAMBDA e : e.userId = userId)
      sorted == SortSeq(mine, byServerTimestamp)
  IN  IF Len(sorted) <= TAKE_LIMIT THEN sorted ELSE SubSeq(sorted, 1, TAKE_LIMIT)

InitialClock == [clockedIn |-> FALSE, onLunch |-> FALSE, lunchStartAt |-> NoTime]

\* body of the for loop of deriveClockState
applyClockEvent(st, e) ==
  CASE e.type = "CLOCK_IN" -> [clockedIn |-> TRUE, onLunch |-> FALSE, lunchStartAt |-> NoTime]
    [] e.type = "CLOCK_OUT" -> [clockedIn |-> FALSE, onLunch |-> FALSE, lunchStartAt |-> NoTime]
    [] e.type = "LUNCH_START" -> [st EXCEPT !.onLunch = TRUE, !.lunchStartAt = e.serverTimestamp]
    [] e.type = "LUNCH_END" -> [st EXCEPT !.onLunch = FALSE, !.lunchStartAt = NoTime]
    [] OTHER -> st

RECURSIVE replayClock(_, _, _)
replayClock(ok, i, st) ==
  IF i > Len(ok) THEN st ELSE replayClock(ok, i + 1, applyClockEvent(st, ok[i]))

\* mutant: the lunch runs out only after more than 30 minutes
lunchExpired_After(st, t) ==
  st.clockedIn /\ st.onLunch /\ st.lunchStartAt # NoTime /\ t - st.lunchStartAt > LUNCH_MS

\* the auto-expiry test of deriveClockState, evaluated at Date.now() = t
lunchExpired(st, t) ==
  st.clockedIn /\ st.onLunch /\ st.lunchStartAt # NoTime /\ t - st.lunchStartAt >= LUNCH_MS

deriveClockState(evs, t) ==
  LET ok == SortSeq(SelectSeq(evs, isOK), byServerTimestamp)
      st == replayClock(ok, 1, InitialClock)
  IN  [clockedIn |-> st.clockedIn,
       onLunch |-> IF lunchExpired(st, t) THEN FALSE ELSE st.onLunch]

\* mutant: LUNCH_START is not checked against a lunch already running
invalidState_LunchTwice(requested, state) ==
  \/ requested = "CLOCK_IN" /\ state.clockedIn
  \/ requested = "CLOCK_OUT" /\ ~state.clockedIn
  \/ requested = "LUNCH_START" /\ ~state.clockedIn
  \/ requested = "LUNCH_END" /\ (~state.clockedIn \/ ~state.onLunch)

\* mutant: CLOCK_OUT is refused during lunch
invalidState_NoClockOutOnLunch(requested, state) ==
  \/ requested = "CLOCK_IN" /\ state.clockedIn
  \/ requested = "CLOCK_OUT" /\ (~state.clockedIn \/ state.onLunch)
  \/ requested = "LUNCH_START" /\ (~state.clockedIn \/ state.onLunch)
  \/ requested = "LUNCH_END" /\ (~state.clockedIn \/ ~state.onLunch)

invalidState(requested, state) ==
  \/ requested = "CLOCK_IN" /\ state.clockedIn
  \/ requested = "CLOCK_OUT" /\ ~state.clockedIn
  \/ requested = "LUNCH_START" /\ (~state.clockedIn \/ state.onLunch)
  \/ requested = "LUNCH_END" /\ (~state.clockedIn \/ ~state.onLunch)

\* GET /staffing/me/state, clock part of the answer at time t
MeState(userId, t) == deriveClockState(findManyEvents(events, userId), t)

-----------------------------------------------------------------------------
(* InMemoryRateLimiter *)

\* mutant: timestamps of the last millisecond of the window are dropped too
RECURSIVE prune_Early(_, _)
prune_Early(ts, cutoff) ==
  IF Len(ts) > 0 /\ Head(ts) < cutoff + 2 THEN prune_Early(Tail(ts), cutoff) ELSE ts

RECURSIVE prune(_, _)
prune(ts, cutoff) ==
  IF Len(ts) > 0 /\ Head(ts) < cutoff THEN prune(Tail(ts), cutoff) ELSE ts

Max(a, b) == IF a >= b THEN a ELSE b

\* Math.ceil(ms / 1000) for ms >= 0
CeilSeconds(ms) == (ms + 999) \div 1000

\* hit(key) at time t on the bucket ts of that key
hit(ts, t, windowMs, maxHits) ==
  LET b == prune(ts, t - windowMs)
      oldest == IF Len(b) > 0 THEN Head(b) ELSE t
  IN  IF Len(b) >= maxHits
        THEN [allowed |-> FALSE, ts |-> b, remaining |-> 0,
              retryAfterSeconds |-> CeilSeconds(Max(0, oldest + windowMs - t))]
        ELSE [allowed |-> TRUE, ts |-> Append(b, t),
              remaining |-> Max(0, maxHits - (Len(b) + 1)), retryAfterSeconds |-> 0]

-----------------------------------------------------------------------------
(* Requests *)

NoAcc == -1
NoGeo == [present |-> FALSE, distanceMm |-> 0, accuracyMeters |-> NoAcc]

\* geo.distanceMm stands for haversineMeters(geo, STAFFING_SITE) in millimetres
inRange(geo) == IF geo.present THEN geo.distanceMm <= RADIUS_MM ELSE FALSE

accuracyOk(geo) ==
  IF geo.present /\ geo.accuracyMeters # NoAcc THEN geo.accuracyMeters <= MAX_ACCURACY_M
  ELSE geo.present

wifiOk(in) == WifiStatus(in.userId, in.ip) \in {"PASS", "DEV_BYPASS"}

\* mutant: the accuracy of the fix is not looked at
locOk_AnyAccuracy(in) == in.geo.present /\ inRange(in.geo)

locOk(in) == in.geo.present /\ inRange(in.geo) /\ accuracyOk(in.geo)

\* mutant: the range is judged before the accuracy
verificationReason_RangeFirst(in) ==
  IF ~in.geo.present THEN "LOCATION_UNAVAILABLE"
  ELSE IF ~inRange(in.geo) THEN "OUT_OF_RANGE"
  ELSE IF ~accuracyOk(in.geo) THEN "ACCURACY_LOW"
  ELSE "PERMISSION_DENIED"

\* reason chosen when neither channel verifies
verificationReason(in) ==
  IF ~in.geo.present THEN "LOCATION_UNAVAILABLE"
  ELSE IF ~accuracyOk(in.geo) THEN "ACCURACY_LOW"
  ELSE IF ~inRange(in.geo) THEN "OUT_OF_RANGE"
  ELSE "PERMISSION_DENIED"

NoInput ==
  [userId |-> NoStr, type |-> NoStr, ip |-> NoStr, geo |-> NoGeo, deviceId |-> NoStr,
   punchToken |-> NoId, idempotencyKey |-> NoStr, userAgent |-> NoStr,
   clientReportedTimestamp |-> NoTime]

IdleReq ==
  [kind |-> "none", pc |-> "idle", in |-> NoInput, attempt |-> 0, invalidState |-> FALSE,
   serverNow |-> NoTime, idemCutoff |-> NoTime, tokenRowId |-> NoId, expiresAt |-> NoTime,
   pending |-> NoEvent, response |-> NoStr]

Slots == {1, 2}

IpKeys == {"ipA", "ipB", "unknown"}

ipKey(ip) == IF ip # NoStr THEN ip ELSE "unknown"

DRIFT_FLAG_MS == 5 * 60 * 1000

Abs(x) == IF x < 0 THEN -x ELSE x

driftMs(serverNow, clientReported) ==
  IF clientReported = NoTime THEN 0 ELSE serverNow - clientReported

\* mutant: a drift of exactly five minutes is not flagged
driftFlag_Above(serverNow, clientReported) ==
  IF clientReported = NoTime THEN "null"
  ELSE IF Abs(serverNow - clientReported) > DRIFT_FLAG_MS THEN "true" ELSE "false"

driftFlag(serverNow, clientReported) ==
  IF clientReported = NoTime THEN "null"
  ELSE IF Abs(serverNow - clientReported) >= DRIFT_FLAG_MS THEN "true" ELSE "false"

verificationMethod(in) ==
  IF wifiOk(in) /\ locOk(in) THEN "both"
  ELSE IF wifiOk(in) THEN "wifi"
  ELSE IF locOk(in) THEN "location"
  ELSE "none"

baseEvent(attempt, in, serverNow) ==
  [attempt |-> attempt, userId |-> in.userId, agency |-> Profile(in.userId).agency,
   type |-> in.type, status |-> NoStr, reason |-> NoStr,
   serverTimestamp |-> serverNow, createdAt |-> NoTime,
   clientReportedTimestamp |-> in.clientReportedTimestamp,
   clientTimeDriftMs |-> driftMs(serverNow, in.clientReportedTimestamp),
   clientTimeDriftFlag |-> driftFlag(serverNow, in.clientReportedTimestamp),
   verificationMethod |-> verificationMethod(in), deviceId |-> in.deviceId,
   idempotencyKey |-> in.idempotencyKey, punchTokenId |-> NoId, signedAt |-> NoTime,
   signaturePngBase64 |-> NoStr]

blocked(base, reason) == [base EXCEPT !.status = "BLOCKED", !.reason = reason]

\* events written since Init (those of Init carry attempt 0)
NewEvents == Len(SelectSeq(events, LAMBDA e : e.attempt > 0))

InFlight(kind) == Cardinality({s \in Slots : req[s].kind = kind /\ req[s].pc # "done"})

Attempts == {events[i].attempt : i \in 1..Len(events)} \cup {req[s].attempt : s \in Slots}

NextAttempt == 1 + CHOOSE m \in Attempts : \A a \in Attempts : a <= m

-----------------------------------------------------------------------------
(* POST /staffing/events *)

\* requireSiteRole, profile lookup, eligibility
PunchStart(s, userId, type) ==
  /\ req[s].pc = "idle"
  /\ req' = [req EXCEPT ![s] =
       LET in == [NoInput EXCEPT !.userId = userId, !.type = type] IN
       IF Eligible(in.userId)
         THEN [IdleReq EXCEPT !.kind = "punch", !.pc = "load", !.in = in, !.attempt = NextAttempt]
         ELSE [IdleReq EXCEPT !.kind = "punch", !.pc = "done", !.in = in, !.response = "FORBIDDEN"]]
  /\ UNCHANGED <<now, ticks, events, tokens, userHits, ipHits, sideVars>>

\* findMany returns; state derivation; verification, device, rate limit and
\* missing-key gates; up to the next await
PunchLoad(s, ip, geo, deviceId, idempotencyKey, clientReportedTimestamp) ==
  /\ req[s].kind = "punch" /\ req[s].pc = "load"
  /\ now' = now + 1
  /\ LET in == [req[s].in EXCEPT !.ip = ip, !.geo = geo, !.deviceId = deviceId,
                                 !.idempotencyKey = idempotencyKey,
                                 !.clientReportedTimestamp = clientReportedTimestamp]
         t == now + 1
         state == deriveClockState(findManyEvents(events, in.userId), t)
         base == baseEvent(req[s].attempt, in, t)
         r1 == [req[s] EXCEPT !.in = in, !.invalidState = invalidState(in.type, state), !.serverNow = t]
         ipHit == hit(ipHits[ipKey(in.ip)], t, PUNCH_WINDOW_MS, IP_PUNCH_MAX)
         userHit == hit(userHits[in.userId], t, PUNCH_WINDOW_MS, USER_PUNCH_MAX)
     IN  IF ~wifiOk(in) /\ ~locOk(in)
           THEN /\ req' = [req EXCEPT ![s] = [r1 EXCEPT !.pc = "write",
                                                 !.pending = blocked(base, verificationReason(in))]]
                /\ UNCHANGED <<userHits, ipHits>>
         ELSE IF in.deviceId = NoStr
           THEN /\ req' = [req EXCEPT ![s] = [r1 EXCEPT !.pc = "write",
                                                 !.pending = blocked(base, "PERMISSION_DENIED")]]
                /\ UNCHANGED <<userHits, ipHits>>
         ELSE /\ ipHits' = [ipHits EXCEPT ![ipKey(in.ip)] = ipHit.ts]
              /\ userHits' = [userHits EXCEPT ![in.userId] = userHit.ts]
              /\ req' = [req EXCEPT ![s] =
                   IF ~ipHit.allowed \/ ~userHit.allowed
                     THEN [r1 EXCEPT !.pc = "write", !.pending = blocked(base, "RATE_LIMITED")]
                   ELSE IF in.idempotencyKey = NoStr
                     THEN [r1 EXCEPT !.pc = "write", !.pending = blocked(base, "MISSING_IDEMPOTENCY_KEY")]
                   ELSE [r1 EXCEPT !.pc = "idem", !.pending = base,
                                   !.idemCutoff = t - IDEMPOTENCY_WINDOW_MS]]
  /\ UNCHANGED <<ticks, events, tokens, sideVars>>

\* mutant: the lookup only goes back half the window
idempotencyKeyExists_HalfWindow(log, key, cutoff) ==
  \E i \in 1..Len(log) :
    log[i].idempotencyKey = key /\ log[i].createdAt >= cutoff + IDEMPOTENCY_WINDOW_MS \div 2

\* findFirst({ idempotencyKey, createdAt: { gte: cutoff } })
idempotencyKeyExists(log, key, cutoff) ==
  \E i \in 1..Len(log) : log[i].idempotencyKey = key /\ log[i].createdAt >= cutoff

\* mutant: the missing-token check runs before the reuse check
PunchIdem_TokenFirst(s, punchToken) ==
  /\ req[s].kind = "punch" /\ req[s].pc = "idem"
  /\ LET r == [req[s] EXCEPT !.in.punchToken = punchToken]
     IN  req' = [req EXCEPT ![s] =
           IF r.in.punchToken = NoId
             THEN [r EXCEPT !.pc = "write", !.pending = blocked(r.pending, "INVALID_PUNCH_TOKEN")]
           ELSE IF idempotencyKeyExists(events, r.in.idempotencyKey, r.idemCutoff)
             THEN [r EXCEPT !.pc = "write", !.pending = blocked(r.pending, "REUSED_IDEMPOTENCY_KEY")]
           ELSE [r EXCEPT !.pc = "token"]]
  /\ UNCHANGED <<now, ticks, events, tokens, userHits, ipHits, sideVars>>

\* idempotency lookup returns; reuse gate; missing-token gate
PunchIdem(s, punchToken) ==
  /\ req[s].kind = "punch" /\ req[s].pc = "idem"
  /\ LET r == [req[s] EXCEPT !.in.punchToken = punchToken]
     IN  req' = [req EXCEPT ![s] =
           IF idempotencyKeyExists(events, r.in.idempotencyKey, r.idemCutoff)
             THEN [r EXCEPT !.pc = "write", !.pending = blocked(r.pending, "REUSED_IDEMPOTENCY_KEY")]
           ELSE IF r.in.punchToken = NoId
             THEN [r EXCEPT !.pc = "write", !.pending = blocked(r.pending, "INVALID_PUNCH_TOKEN")]
           ELSE [r EXCEPT !.pc = "token"]]
  /\ UNCHANGED <<now, ticks, events, tokens, userHits, ipHits, sideVars>>

\* mutant: the lookup does not look at revokedAt
findTokenRow_Revoked(toks, userId, deviceId, tokenHash, serverNow) ==
  LET ids == {i \in 1..Len(toks) :
                /\ toks[i].userId = userId
                /\ toks[i].deviceId = deviceId
                /\ toks[i].tokenHash = tokenHash
                /\ toks[i].expiresAt > serverNow}
  IN  IF ids = {} THEN NoId ELSE CHOOSE i \in ids : \A j \in ids : i <= j

\* staffingPunchToken.findFirst({ userId, deviceId, tokenHash, revokedAt: null, expiresAt: { gt: serverNow } })
findTokenRow(toks, userId, deviceId, tokenHash, serverNow) ==
  LET ids == {i \in 1..Len(toks) :
                /\ toks[i].userId = userId
                /\ toks[i].deviceId = deviceId
                /\ toks[i].tokenHash = tokenHash
                /\ toks[i].revokedAt = NoTime
                /\ toks[i].expiresAt > serverNow}
  IN  IF ids = {} THEN NoId ELSE CHOOSE i \in ids : \A j \in ids : i <= j

tokenRowValid(toks, id, uaHash) ==
  /\ id # NoId
  /\ ~(toks[id].userAgentHash # NoStr /\ toks[id].userAgentHash # uaHash)

\* token lookup returns; token gate
PunchToken(s, userAgent) ==
  /\ req[s].kind = "punch" /\ req[s].pc = "token"
  /\ LET r == [req[s] EXCEPT !.in.userAgent = userAgent]
         id == findTokenRow(tokens, r.in.userId, r.in.deviceId, sha256Hex(r.in.punchToken), r.serverNow)
     IN  req' = [req EXCEPT ![s] =
           IF ~tokenRowValid(tokens, id, sha256Hex(r.in.userAgent))
             THEN [r EXCEPT !.pc = "write", !.pending = blocked(r.pending, "INVALID_PUNCH_TOKEN")]
           ELSE [r EXCEPT !.pc = "stamp", !.tokenRowId = id]]
  /\ UNCHANGED <<now, ticks, events, tokens, userHits, ipHits, sideVars>>

\* mutant: using a token renews it for another 12 hours
PunchStamp_Renew(s) ==
  /\ req[s].kind = "punch" /\ req[s].pc = "stamp"
  /\ LET r == req[s]
         withToken == [r.pending EXCEPT !.punchTokenId = r.tokenRowId]
     IN  /\ tokens' = [tokens EXCEPT ![r.tokenRowId].lastSeenAt = r.serverNow,
                                      ![r.tokenRowId].expiresAt = r.serverNow + TOKEN_TTL_MS]
         /\ req' = [req EXCEPT ![s] =
              IF r.invalidState
                THEN [r EXCEPT !.pc = "write", !.pending = blocked(withToken, "INVALID_STATE")]
              ELSE [r EXCEPT !.pc = "write", !.pending = [withToken EXCEPT !.status = "OK"]]]
  /\ UNCHANGED <<now, ticks, events, userHits, ipHits, sideVars>>

\* staffingPunchToken.update({ lastSeenAt: serverNow }); sequencing gate
PunchStamp(s) ==
  /\ req[s].kind = "punch" /\ req[s].pc = "stamp"
  /\ LET r == req[s]
         withToken == [r.pending EXCEPT !.punchTokenId = r.tokenRowId]
     IN  /\ tokens' = [tokens EXCEPT ![r.tokenRowId].lastSeenAt = r.serverNow]
         /\ req' = [req EXCEPT ![s] =
              IF r.invalidState
                THEN [r EXCEPT !.pc = "write", !.pending = blocked(withToken, "INVALID_STATE")]
              ELSE [r EXCEPT !.pc = "write", !.pending = [withToken EXCEPT !.status = "OK"]]]
  /\ UNCHANGED <<now, ticks, events, userHits, ipHits, sideVars>>

\* mutant: a rejection is thrown without its audit row being created
PunchWrite_NoAudit(s) ==
  /\ req[s].kind = "punch" /\ req[s].pc = "write"
  /\ LET r == req[s]
     IN  /\ events' = IF r.pending.status = "OK"
                        THEN Append(events, [r.pending EXCEPT !.createdAt = now])
                        ELSE events
         /\ req' = [req EXCEPT ![s] =
              [r EXCEPT !.pc = "done",
                        !.response = IF r.pending.status = "OK" THEN "OK" ELSE r.pending.reason]]
  /\ UNCHANGED <<now, ticks, tokens, userHits, ipHits, sideVars>>

\* staffingTimeEvent.create executes; the handler answers
PunchWrite(s) ==
  /\ req[s].kind = "punch" /\ req[s].pc = "write"
  /\ LET r == req[s]
     IN  /\ events' = Append(events, [r.pending EXCEPT !.createdAt = now])
         /\ req' = [req EXCEPT ![s] =
              [r EXCEPT !.pc = "done",
                        !.response = IF r.pending.status = "OK" THEN "OK" ELSE r.pending.reason]]
  /\ UNCHANGED <<now, ticks, tokens, userHits, ipHits, sideVars>>

\* the response has been sent; the slot is free again
Return(s) ==
  /\ req[s].pc = "done"
  /\ req' = [req EXCEPT ![s] = IdleReq]
  /\ UNCHANGED <<now, ticks, events, tokens, userHits, ipHits, sideVars>>

-----------------------------------------------------------------------------
(* Punch tokens: staffing_punch_tokens, in insertion order.  id = position; *)
(* the raw token of row i is i, its stored hash sha256Hex(i).               *)

tokenActive(tok, t) == tok.revokedAt = NoTime /\ tok.expiresAt > t

\* mutant: the issuance revokes nothing
revokeActive_Nothing(toks, userId, deviceId, t) == toks

\* updateMany({ where: { userId, deviceId, revokedAt: null, expiresAt: { gt: t } }, data: { revokedAt: t } })
revokeActive(toks, userId, deviceId, t) ==
  [i \in 1..Len(toks) |->
     IF toks[i].userId = userId /\ toks[i].deviceId = deviceId /\ tokenActive(toks[i], t)
       THEN [toks[i] EXCEPT !.revokedAt = t]
       ELSE toks[i]]

\* requireSiteRole, profile lookup, eligibility, device id; the revoke query is built
IssueStart(s, userId, deviceId) ==
  /\ req[s].pc = "idle"
  /\ req' = [req EXCEPT ![s] =
       LET in == [NoInput EXCEPT !.userId = userId, !.deviceId = deviceId] IN
       IF ~Eligible(userId)
         THEN [IdleReq EXCEPT !.kind = "issue", !.pc = "done", !.in = in, !.response = "FORBIDDEN"]
       ELSE IF deviceId = NoStr
         THEN [IdleReq EXCEPT !.kind = "issue", !.pc = "done", !.in = in, !.response = "BAD_REQUEST"]
       ELSE [IdleReq EXCEPT !.kind = "issue", !.pc = "revoke", !.in = in, !.serverNow = now]]
  /\ UNCHANGED <<now, ticks, events, tokens, userHits, ipHits, sideVars>>

\* updateMany executes; secret, expiresAt and user-agent hash are computed
IssueRevoke(s, userAgent) ==
  /\ req[s].kind = "issue" /\ req[s].pc = "revoke"
  /\ LET r == req[s]
     IN  /\ tokens' = revokeActive(tokens, r.in.userId, r.in.deviceId, r.serverNow)
         /\ req' = [req EXCEPT ![s] =
              [r EXCEPT !.pc = "create", !.in.userAgent = userAgent, !.expiresAt = now + TOKEN_TTL_MS,
                        !.serverNow = now]]
  /\ UNCHANGED <<now, ticks, events, userHits, ipHits, sideVars>>

\* staffingPunchToken.create executes; the raw token is answered
IssueCreate(s) ==
  /\ req[s].kind = "issue" /\ req[s].pc = "create"
  /\ LET r == req[s]
         id == Len(tokens) + 1
     IN  /\ tokens' = Append(tokens,
              [userId |-> r.in.userId, deviceId |-> r.in.deviceId,
               userAgentHash |-> sha256Hex(r.in.userAgent), tokenHash |-> sha256Hex(id),
               issuedAt |-> r.serverNow, expiresAt |-> r.expiresAt,
               revokedAt |-> NoTime, lastSeenAt |-> NoTime])
         /\ req' = [req EXCEPT ![s] = [r EXCEPT !.pc = "done", !.tokenRowId = id, !.response = "TOKEN"]]
  /\ UNCHANGED <<now, ticks, events, userHits, ipHits, sideVars>>

-----------------------------------------------------------------------------
(* Time.  Date.now() advances by 1 ms inside PunchLoad, so that no two     *)
(* punches share a serverTimestamp; longer stretches pass between requests. *)

Idle == \A s \in DOMAIN req : req[s].pc = "idle"

Tick(d) ==
  /\ Idle
  /\ now' = now + d
  /\ ticks' = ticks + 1
  /\ UNCHANGED <<events, tokens, userHits, ipHits, req, sideVars>>

-----------------------------------------------------------------------------
(* Inputs *)

GeoNear == [present |-> TRUE, distanceMm |-> RADIUS_MM, accuracyMeters |-> MAX_ACCURACY_M]
GeoFar == [present |-> TRUE, distanceMm |-> RADIUS_MM + 1, accuracyMeters |-> NoAcc]
GeoVague == [present |-> TRUE, distanceMm |-> RADIUS_MM + 1, accuracyMeters |-> MAX_ACCURACY_M + 1]
GeoBlurred == [present |-> TRUE, distanceMm |-> RADIUS_MM, accuracyMeters |-> MAX_ACCURACY_M + 1]
GeoPlain == [present |-> TRUE, distanceMm |-> 0, accuracyMeters |-> NoAcc]
GeoEdge == [present |-> TRUE, distanceMm |-> RADIUS_MM + 1, accuracyMeters |-> MAX_ACCURACY_M]

\* the steps of a punch in slot s, inputs drawn from the sets of c
PunchSteps(s, c) ==
  \/ /\ NewEvents + InFlight("punch") < c.maxEvents
     /\ \E u \in c.users, ty \in c.types : PunchStart(s, u, ty)
  \/ \E ip \in c.ips, geo \in c.geos, d \in c.devices, k \in c.keys, ct \in c.clientTimes :
       PunchLoad(s, ip, geo, d, k, ct)
  \/ \E tok \in c.rawTokens : PunchIdem(s, tok)
  \/ \E ua \in c.userAgents : PunchToken(s, ua)
  \/ PunchStamp(s)
  \/ PunchWrite(s)

\* the steps of a token issuance in slot s
IssueSteps(s, c) ==
  \/ /\ Len(tokens) + InFlight("issue") < c.maxTokens
     /\ \E u \in c.users, d \in c.devices : IssueStart(s, u, d)
  \/ \E ua \in c.userAgents : IssueRevoke(s, ua)
  \/ IssueCreate(s)

Ticks(c) ==
  /\ ticks < c.maxTicks
  /\ \E d \in c.jumps : Tick(d)

\* the token row created by an issuance for (userId, deviceId) at time t
issuedToken(id, userId, deviceId, userAgent, t) ==
  [userId |-> userId, deviceId |-> deviceId, userAgentHash |-> sha256Hex(userAgent),
   tokenHash |-> sha256Hex(id), issuedAt |-> t, expiresAt |-> t + TOKEN_TTL_MS,
   revokedAt |-> NoTime, lastSeenAt |-> NoTime]

\* call counts the hits made so far, before is the bucket of the key as the call found it
NoHit ==
  [call |-> 0, key |-> NoStr, at |-> NoTime, before |-> <<>>,
   allowed |-> TRUE, remaining |-> 0, retryAfterSeconds |-> 0, granted |-> <<>>]

NoLimiter == [windowMs |-> 0, maxHits |-> 0, buckets |-> <<>>]

AgencyLimiters == {"BURST_KEY", "BURST_IP", "MIN_KEY", "MIN_IP"}

AgencyRoutes == {"time-records", "weekly-summary", "export-csv", "timecard/daily-rows", "timecard/pdf"}

AgencyKeyIds == {"keyP", "keyS"}

AgencyIps == {"ipX", "ipY"}

\* `key:${keyId}:${route}` and `ip:${ip}:${route}`
AgencyBuckets == (AgencyKeyIds \cup AgencyIps) \X AgencyRoutes

\* call counts the requests answered so far; hits are the values the four limiters returned
NoReply ==
  [call |-> 0, status |-> 0, retryAfterHeader |-> 0, retryAfterSeconds |-> 0,
   hits |-> [l \in AgencyLimiters |-> [allowed |-> TRUE, retryAfterSeconds |-> 0]]]

\* builder is "weekly" (employee portal) or "daily" (agency API); agency is the filter of the
\* latter; call counts the employee-portal reports produced so far
NoReport ==
  [call |-> 0, builder |-> NoStr, userId |-> NoStr, agency |-> NoStr, from |-> NoTime, to |-> NoTime,
   segments |-> <<>>, rows |-> <<>>, totals |-> [hoursMs |-> 0]]

\* the last call of POST /attendance/:shiftId/signature: its inputs, its answer
\* and the row it named as it was before the call (NoEvent if there is none)
NoSignature ==
  [call |-> 0, userId |-> NoStr, shiftId |-> NoId, sig |-> NoStr, status |-> 0,
   before |-> NoEvent]

\* the last answer of GET /staffing/me/state
NoMe ==
  [userId |-> NoStr, clockedIn |-> FALSE, onLunch |-> FALSE, wifiAllowlistStatus |-> NoStr,
   signatureRequired |-> FALSE, shiftId |-> NoId]

\* the side state before anything has used it
\* the handlers of GET /timecard/pdf that may run at once
PdfSlots == {1, 2}

NoPending ==
  [pc |-> "idle", seq |-> 0, cacheKey |-> <<>>, now |-> NoTime, agency |-> NoStr, userId |-> NoStr,
   from |-> NoTime, to |-> NoTime, bytes |-> <<>>]

\* no /timecard/pdf request under way, none answered
NoPdf == [pending |-> [s \in PdfSlots |-> NoPending], served |-> <<>>]

\* the API keys of the deployment ("" for a key that is not configured) and
\* the last answer of the agency API: the bearer token sent, the route, the
\* status, the agency the request was authenticated as, what was returned
NoAnswer ==
  [call |-> 0, keys |-> [PROLOGISTIX |-> "tokP", STAFF_FORCE |-> "tokS"], token |-> NoStr,
   route |-> NoStr, status |-> 0, agency |-> NoStr, userId |-> NoStr, filter |-> NoStr,
   from |-> NoTime, to |-> NoTime, data |-> <<>>]

SideInit ==
  /\ limiter = NoLimiter
  /\ lastHit = NoHit
  /\ agencyHits = [l \in AgencyLimiters |-> [b \in AgencyBuckets |-> <<>>]]
  /\ reply = NoReply
  /\ report = NoReport
  /\ signature = NoSignature
  /\ pdfCache = <<>>
  /\ pdf = NoPdf
  /\ answer = NoAnswer
  /\ wifi = NoWifi
  /\ me = NoMe

\* the state after one issuance for (u1, d1) at time 0 and then n punches of
\* u1 from ipA, 1 ms apart, none carrying an idempotency key: n audited
\* rejections and n hits in both limiters
InitAfter(n, toks) ==
  /\ now = n
  /\ ticks = 0
  /\ events = [i \in 1..n |->
       [NoEvent EXCEPT !.deviceId = "d1", !.userId = "u1", !.agency = Profile("u1").agency,
                       !.type = "CLOCK_IN", !.status = "BLOCKED", !.verificationMethod = "wifi",
                       !.reason = "MISSING_IDEMPOTENCY_KEY", !.serverTimestamp = i,
                       !.createdAt = i]]
  /\ tokens = toks
  /\ userHits = [u \in Users |-> IF u = "u1" THEN [i \in 1..n |-> i] ELSE <<>>]
  /\ ipHits = [k \in IpKeys |-> IF k = "ipA" THEN [i \in 1..n |-> i] ELSE <<>>]
  /\ req = [s \in Slots |-> IdleReq]
  /\ SideInit

OneToken == <<issuedToken(1, "u1", "d1", "uaA", 0)>>

-----------------------------------------------------------------------------
(* Spec: the gate pipeline, one request at a time, every gate able to fail *)

GateMaxEvents == 2

GateConf ==
  [users |-> {"u1", "u3"}, types |-> {"CLOCK_IN", "CLOCK_OUT"},
   ips |-> {"ipA", "ipB"}, geos |-> {NoGeo, GeoNear, GeoFar},
   devices |-> {"d1", NoStr}, keys |-> {"k1", NoStr}, clientTimes |-> {NoTime}, rawTokens |-> {NoId, 1, 2},
   userAgents |-> {"uaA", "uaB"}, maxEvents |-> GateMaxEvents]

Init == InitAfter(0, OneToken) \/ InitAfter(USER_PUNCH_MAX - 1, OneToken)

Next ==
  \/ PunchSteps(1, GateConf)
  \/ Return(1)

Spec == Init /\ [][Next]_vars

-----------------------------------------------------------------------------
(* Vocabulary of the properties *)

\* an eligible punch whose handler has answered and whose slot is not yet reused
DonePunch(s) == req[s].kind = "punch" /\ req[s].pc = "done" /\ Eligible(req[s].in.userId)

OwnEvents(a) == {i \in 1..Len(events) : events[i].attempt = a}

\* the log as it was before the request with attempt number a wrote to it
LogBefore(a) == SelectSeq(events, LAMBDA e : e.attempt # a)

ClockName(state) ==
  IF ~state.clockedIn THEN "OUT" ELSE IF state.onLunch THEN "ON_LUNCH" ELSE "IN"

\* derived clock state the request in slot s was judged against
ClockBefore(s) ==
  ClockName(deriveClockState(findManyEvents(LogBefore(req[s].attempt), req[s].in.userId), req[s].serverNow))

\* derived clock state right after the request in slot s, read at the same instant
ClockAfter(s) == ClockName(MeState(req[s].in.userId, req[s].serverNow))

Range(seq) == {seq[i] : i \in 1..Len(seq)}

-----------------------------------------------------------------------------
(* C1: every punch of an eligible user has appended exactly one event when *)
(* it returns -- OK with no reason when it is accepted, BLOCKED with the   *)
(* reason it is rejected for otherwise -- and no punch ever appends two.   *)

-----------------------------------------------------------------------------
(* C8: a rejected punch carries the reason of the earliest failing gate in *)
(* the order verification, device id, rate limit, missing key, reused key, *)
(* punch token, sequencing; a punch rejected before the rate-limit gate    *)
(* records no limiter hit, one rejected before the token gate has passed   *)
(* stamps no token.                                                        *)

C8_rateLimited(s) ==
  ~(/\ req[s].serverNow \in Range(userHits[req[s].in.userId])
    /\ req[s].serverNow \in Range(ipHits[ipKey(req[s].in.ip)]))

C8_keyReused(s) ==
  \E i \in 1..Len(events) :
    /\ events[i].attempt # req[s].attempt
    /\ events[i].idempotencyKey = req[s].in.idempotencyKey
    /\ events[i].createdAt >= req[s].idemCutoff

C8_tokenRejected(s) ==
  \/ req[s].in.punchToken = NoId
  \/ \A i \in 1..Len(tokens) :
       \/ tokens[i].tokenHash # sha256Hex(req[s].in.punchToken)
       \/ tokens[i].userId # req[s].in.userId
       \/ tokens[i].deviceId # req[s].in.deviceId
       \/ tokens[i].revokedAt # NoTime
       \/ tokens[i].expiresAt <= req[s].serverNow
       \/ tokens[i].userAgentHash # sha256Hex(req[s].in.userAgent)

C8_sequenceRejected(s) ==
  LET before == ClockBefore(s)
      ty == req[s].in.type
  IN  \/ ty = "CLOCK_IN" /\ before # "OUT"
      \/ ty = "CLOCK_OUT" /\ before = "OUT"
      \/ ty = "LUNCH_START" /\ before # "IN"
      \/ ty = "LUNCH_END" /\ before # "ON_LUNCH"

C8_firstFailure(s) ==
  IF ~wifiOk(req[s].in) /\ ~locOk(req[s].in) THEN verificationReason(req[s].in)
  ELSE IF req[s].in.deviceId = NoStr THEN "PERMISSION_DENIED"
  ELSE IF C8_rateLimited(s) THEN "RATE_LIMITED"
  ELSE IF req[s].in.idempotencyKey = NoStr THEN "MISSING_IDEMPOTENCY_KEY"
  ELSE IF C8_keyReused(s) THEN "REUSED_IDEMPOTENCY_KEY"
  ELSE IF C8_tokenRejected(s) THEN "INVALID_PUNCH_TOKEN"
  ELSE IF C8_sequenceRejected(s) THEN "INVALID_STATE"
  ELSE "OK"

BeforeRateGate == {"LOCATION_UNAVAILABLE", "ACCURACY_LOW", "OUT_OF_RANGE", "PERMISSION_DENIED"}

BeforeTokenStamp ==
  BeforeRateGate \cup {"RATE_LIMITED", "MISSING_IDEMPOTENCY_KEY", "REUSED_IDEMPOTENCY_KEY",
                       "INVALID_PUNCH_TOKEN"}

C8_GateOrder ==
  \A s \in Slots : DonePunch(s) =>
    /\ req[s].response = C8_firstFailure(s)
    /\ req[s].response \in BeforeRateGate =>
         \A u \in Users, k \in IpKeys :
           req[s].serverNow \notin Range(userHits[u]) \cup Range(ipHits[k])
    /\ req[s].response \in BeforeTokenStamp =>
         \A i \in 1..Len(tokens) : tokens[i].lastSeenAt # req[s].serverNow

\* rate-limited, and would also have failed the missing-key and sequencing gates
C8_Witness ==
  /\ DonePunch(1)
  /\ req[1].response = "RATE_LIMITED"
  /\ req[1].in.idempotencyKey = NoStr
  /\ req[1].in.type = "CLOCK_OUT"
  /\ ClockBefore(1) = "OUT"

-----------------------------------------------------------------------------
(* SpecClock: one worker punching through the clock states, every gate    *)
(* but sequencing passing (or the token missing), lunch running out       *)

ClockMaxEvents == 2
ClockMaxTicks == 1

ClockConf ==
  [users |-> {"u1"}, types |-> EventTypes, ips |-> {"ipA"}, geos |-> {NoGeo},
   devices |-> {"d1"}, keys |-> {"k1", "k2"}, clientTimes |-> {NoTime}, rawTokens |-> {1},
   userAgents |-> {"uaA"}, jumps |-> {LUNCH_MS - 2, LUNCH_MS - 1},
   maxEvents |-> ClockMaxEvents, maxTicks |-> ClockMaxTicks]

\* the event written by an accepted punch of u1 at time t with token 1
okEvent(type, t, key) ==
  [NoEvent EXCEPT !.deviceId = "d1", !.userId = "u1", !.agency = Profile("u1").agency, !.verificationMethod = "wifi",
                  !.type = type, !.status = "OK",
                  !.serverTimestamp = t, !.createdAt = t,
                  !.idempotencyKey = key, !.punchTokenId = 1]

\* the state after one issuance for (u1, d1) at time 0 and an accepted
\* CLOCK_IN of u1 from ipA at time 1
InitClockedIn ==
  /\ now = 1
  /\ ticks = 0
  /\ events = <<okEvent("CLOCK_IN", 1, "k0")>>
  /\ tokens = <<[issuedToken(1, "u1", "d1", "uaA", 0) EXCEPT !.lastSeenAt = 1]>>
  /\ userHits = [u \in Users |-> IF u = "u1" THEN <<1>> ELSE <<>>]
  /\ ipHits = [k \in IpKeys |-> IF k = "ipA" THEN <<1>> ELSE <<>>]
  /\ req = [s \in Slots |-> IdleReq]
  /\ SideInit

InitClock == InitAfter(0, OneToken) \/ InitClockedIn

NextClock ==
  \/ PunchSteps(1, ClockConf)
  \/ Return(1)
  \/ Ticks(ClockConf)

SpecClock == InitClock /\ [][NextClock]_vars

\* a finished punch that passed every gate before sequencing
Sequenced(s) == DonePunch(s) /\ req[s].response \in {"OK", "INVALID_STATE"}

-----------------------------------------------------------------------------
(* C3: when every other gate passes, CLOCK_IN from OUT, LUNCH_START from  *)
(* IN, LUNCH_END from ON_LUNCH and CLOCK_OUT from IN are persisted OK;     *)
(* CLOCK_IN while IN or ON_LUNCH, CLOCK_OUT while OUT, LUNCH_START while   *)
(* ON_LUNCH or OUT and LUNCH_END while IN or OUT are written BLOCKED with  *)
(* INVALID_STATE and leave the derived state as it was.                    *)

ListedTransitions ==
  {<<"OUT", "CLOCK_IN">>, <<"IN", "LUNCH_START">>, <<"ON_LUNCH", "LUNCH_END">>, <<"IN", "CLOCK_OUT">>}

ListedRejections ==
  {<<"IN", "CLOCK_IN">>, <<"ON_LUNCH", "CLOCK_IN">>, <<"OUT", "CLOCK_OUT">>,
   <<"ON_LUNCH", "LUNCH_START">>, <<"OUT", "LUNCH_START">>,
   <<"IN", "LUNCH_END">>, <<"OUT", "LUNCH_END">>}

C3_TransitionTable ==
  \A s \in Slots : Sequenced(s) =>
    LET move == <<ClockBefore(s), req[s].in.type>>
    IN  /\ move \in ListedTransitions =>
             /\ req[s].response = "OK"
             /\ \A i \in OwnEvents(req[s].attempt) : events[i].status = "OK"
        /\ move \in ListedRejections =>
             /\ req[s].response = "INVALID_STATE"
             /\ \A i \in OwnEvents(req[s].attempt) :
                  events[i].status = "BLOCKED" /\ events[i].reason = "INVALID_STATE"
             /\ ClockAfter(s) = ClockBefore(s)

\* a second LUNCH_START during a running lunch has been rejected
C3_Witness ==
  /\ Sequenced(1)
  /\ req[1].in.type = "LUNCH_START"
  /\ ClockBefore(1) = "ON_LUNCH"
  /\ req[1].response = "INVALID_STATE"

-----------------------------------------------------------------------------
(* C4 as claimed: a CLOCK_OUT requested while ON_LUNCH is rejected with    *)
(* INVALID_STATE and the worker stays ON_LUNCH.                            *)

C4_ClockOutOnLunchRejected ==
  \A s \in Slots :
    Sequenced(s) /\ req[s].in.type = "CLOCK_OUT" /\ ClockBefore(s) = "ON_LUNCH" =>
      req[s].response = "INVALID_STATE" /\ ClockAfter(s) = "ON_LUNCH"

(* C4 amended: a CLOCK_OUT requested while ON_LUNCH passes the sequencing  *)
(* gate -- with every other gate passing it is persisted OK and the worker *)
(* is OUT afterwards.                                                      *)

C4_ClockOutOnLunchAccepted ==
  \A s \in Slots :
    Sequenced(s) /\ req[s].in.type = "CLOCK_OUT" /\ ClockBefore(s) = "ON_LUNCH" =>
      /\ req[s].response = "OK"
      /\ \A i \in OwnEvents(req[s].attempt) : events[i].status = "OK"
      /\ ClockAfter(s) = "OUT"

C4_Witness ==
  /\ Sequenced(1)
  /\ req[1].in.type = "CLOCK_OUT"
  /\ ClockBefore(1) = "ON_LUNCH"
  /\ req[1].response = "OK"

-----------------------------------------------------------------------------
(* SpecIdem: one worker resubmitting idempotency keys around the 24 hour   *)
(* window, with fresh tokens issued when the old one has expired           *)

IdemMaxEvents == 2
IdemMaxTicks == 1
IdemMaxTokens == 2

IdemConf ==
  [users |-> {"u1"}, types |-> {"CLOCK_IN", "CLOCK_OUT"}, ips |-> {"ipA"}, geos |-> {NoGeo},
   devices |-> {"d1"}, keys |-> {"k0", "k1"}, clientTimes |-> {NoTime}, rawTokens |-> {1, 2}, userAgents |-> {"uaA"},
   jumps |-> {IDEMPOTENCY_WINDOW_MS - 2, IDEMPOTENCY_WINDOW_MS - 1, IDEMPOTENCY_WINDOW_MS},
   maxEvents |-> IdemMaxEvents, maxTicks |-> IdemMaxTicks, maxTokens |-> IdemMaxTokens]

InitIdem == InitClockedIn

NextIdem ==
  \/ PunchSteps(1, IdemConf)
  \/ IssueSteps(1, IdemConf)
  \/ Return(1)
  \/ Ticks(IdemConf)

SpecIdem == InitIdem /\ [][NextIdem]_vars

\* a finished punch that passed every gate before the idempotency lookup
ReachedIdemGate(s) ==
  /\ DonePunch(s)
  /\ req[s].response \in {"REUSED_IDEMPOTENCY_KEY", "INVALID_PUNCH_TOKEN", "INVALID_STATE", "OK"}

\* earlier events carrying the key of the request in slot s
EarlierUses(s) ==
  {i \in 1..Len(events) :
     events[i].attempt # req[s].attempt /\ events[i].idempotencyKey = req[s].in.idempotencyKey}

-----------------------------------------------------------------------------
(* C6: once a punch with key k is persisted OK, every later punch with k   *)
(* reaching the idempotency gate less than 24 hours afterwards is written  *)
(* BLOCKED with REUSED_IDEMPOTENCY_KEY; so no two OK events with the same  *)
(* key lie less than 24 hours apart.                                       *)

C6_ReuseRejected ==
  /\ \A s \in Slots : ReachedIdemGate(s) =>
       ((\E i \in EarlierUses(s) :
           /\ events[i].status = "OK"
           /\ req[s].serverNow - events[i].createdAt < IDEMPOTENCY_WINDOW_MS)
        => /\ req[s].response = "REUSED_IDEMPOTENCY_KEY"
           /\ \A j \in OwnEvents(req[s].attempt) :
                events[j].status = "BLOCKED" /\ events[j].reason = "REUSED_IDEMPOTENCY_KEY")
  /\ \A i, j \in 1..Len(events) :
       /\ i < j
       /\ events[i].status = "OK" /\ events[j].status = "OK"
       /\ events[i].idempotencyKey = events[j].idempotencyKey
       => events[j].serverTimestamp - events[i].createdAt >= IDEMPOTENCY_WINDOW_MS

\* a resubmission in the last millisecond of the window has been rejected
C6_Witness ==
  /\ ReachedIdemGate(1)
  /\ req[1].response = "REUSED_IDEMPOTENCY_KEY"
  /\ \E i \in EarlierUses(1) :
       /\ events[i].status = "OK"
       /\ req[1].serverNow - events[i].createdAt = IDEMPOTENCY_WINDOW_MS - 1

-----------------------------------------------------------------------------
(* C7: after key k was submitted twice (an OK event, then a                *)
(* REUSED_IDEMPOTENCY_KEY event inside the 24 hour window), a third        *)
(* submission of k made once 24 hours have elapsed since k was first used  *)
(* is not rejected for key reuse.                                          *)

C7_ThirdSubmissionNotReused ==
  \A s \in Slots : ReachedIdemGate(s) =>
    \A i, j \in EarlierUses(s) :
      /\ EarlierUses(s) = {i, j}
      /\ i < j
      /\ events[i].status = "OK"
      /\ events[j].reason = "REUSED_IDEMPOTENCY_KEY"
      /\ events[j].createdAt - events[i].createdAt < IDEMPOTENCY_WINDOW_MS
      /\ req[s].serverNow - events[i].createdAt > IDEMPOTENCY_WINDOW_MS
      => req[s].response # "REUSED_IDEMPOTENCY_KEY"

-----------------------------------------------------------------------------
(* SpecHistory: a worker whose log already holds TAKE_LIMIT - 1 or         *)
(* TAKE_LIMIT rejected punches keeps punching                              *)

HistoryMaxEvents == 2

HistoryConf ==
  [users |-> {"u1"}, types |-> {"CLOCK_IN", "CLOCK_OUT"}, ips |-> {"ipA", "ipB"}, geos |-> {NoGeo},
   devices |-> {"d1"}, keys |-> {"k1", "k2"}, clientTimes |-> {NoTime}, rawTokens |-> {1}, userAgents |-> {"uaA"},
   maxEvents |-> HistoryMaxEvents]

\* the state after one issuance for (u1, d1) at time 0 and then n punches of
\* u1 from ipB without a location, 1 ms apart: n audited rejections by the
\* verification gate, which runs before the limiters are hit
InitBlocked(n) ==
  /\ now = n
  /\ ticks = 0
  /\ events = [i \in 1..n |->
       [NoEvent EXCEPT !.deviceId = "d1", !.userId = "u1", !.agency = Profile("u1").agency,
                       !.type = "CLOCK_IN", !.status = "BLOCKED",
                       !.reason = "LOCATION_UNAVAILABLE", !.serverTimestamp = i,
                       !.createdAt = i]]
  /\ tokens = OneToken
  /\ userHits = [u \in Users |-> <<>>]
  /\ ipHits = [k \in IpKeys |-> <<>>]
  /\ req = [s \in Slots |-> IdleReq]
  /\ SideInit

InitHistory == InitBlocked(TAKE_LIMIT - 1) \/ InitBlocked(TAKE_LIMIT)

NextHistory ==
  \/ PunchSteps(1, HistoryConf)
  \/ Return(1)

SpecHistory == InitHistory /\ [][NextHistory]_vars

\* the transition table of the clock: a listed transition moves, anything
\* else stays; a lunch that has run 30 minutes counts as ended
TableLapse(st, t) ==
  IF st.name = "ON_LUNCH" /\ t - st.lunchStartAt >= LUNCH_MS
    THEN [name |-> "IN", lunchStartAt |-> NoTime]
    ELSE st

TableStep(st, e) ==
  LET cur == TableLapse(st, e.serverTimestamp)
  IN  CASE cur.name = "OUT" /\ e.type = "CLOCK_IN" -> [name |-> "IN", lunchStartAt |-> NoTime]
        [] cur.name = "IN" /\ e.type = "LUNCH_START" -> [name |-> "ON_LUNCH", lunchStartAt |-> e.serverTimestamp]
        [] cur.name = "ON_LUNCH" /\ e.type = "LUNCH_END" -> [name |-> "IN", lunchStartAt |-> NoTime]
        [] cur.name = "IN" /\ e.type = "CLOCK_OUT" -> [name |-> "OUT", lunchStartAt |-> NoTime]
        [] OTHER -> cur

RECURSIVE TableFoldFrom(_, _, _)
TableFoldFrom(ok, i, st) ==
  IF i > Len(ok) THEN st ELSE TableFoldFrom(ok, i + 1, TableStep(st, ok[i]))

\* fold of the table over every OK event of userId in log, read at time t
TableFold(log, userId, t) ==
  LET ok == SortSeq(SelectSeq(log, LAMBDA e : e.userId = userId /\ e.status = "OK"),
                    byServerTimestamp)
  IN  TableLapse(TableFoldFrom(ok, 1, [name |-> "OUT", lunchStartAt |-> NoTime]), t).name

-----------------------------------------------------------------------------
(* C2: whatever the length of the log, the clock state the sequencing gate *)
(* judges a punch against and the one GET /staffing/me/state returns equal *)
(* the fold of the transition table over all OK events of the user in      *)
(* timestamp order; BLOCKED events never change it.                        *)

C2_StateIsFoldOfOK ==
  /\ \A u \in Users : ClockName(MeState(u, now)) = TableFold(events, u, now)
  /\ \A s \in Slots : Sequenced(s) =>
       ClockBefore(s) = TableFold(LogBefore(req[s].attempt), req[s].in.userId, req[s].serverNow)

-----------------------------------------------------------------------------
(* SpecTokens: issuances and punches of two workers on two devices, one    *)
(* request at a time, tokens running out in between                        *)

TokensMaxEvents == 1
TokensMaxTicks == 1
TokensMaxTokens == 3

TokensConf ==
  [users |-> {"u1", "u2"}, devices |-> {"d1", "d2"}, userAgents |-> {"uaA"},
   jumps |-> {TOKEN_TTL_MS - 1, TOKEN_TTL_MS},
   maxTicks |-> TokensMaxTicks, maxTokens |-> TokensMaxTokens]

\* the punches come from u1 on d1
TokensPunchConf ==
  [users |-> {"u1"}, types |-> {"CLOCK_IN"}, ips |-> {"ipA"}, geos |-> {NoGeo},
   devices |-> {"d1"}, keys |-> {"k1"}, clientTimes |-> {NoTime}, rawTokens |-> {1, 2}, userAgents |-> {"uaA"},
   maxEvents |-> TokensMaxEvents]

InitTokens == InitAfter(0, OneToken)

NextTokens ==
  \/ PunchSteps(1, TokensPunchConf)
  \/ IssueSteps(1, TokensConf)
  \/ Return(1)
  \/ Ticks(TokensConf)

SpecTokens == InitTokens /\ [][NextTokens]_vars

Pairs == {<<u, d>> : u \in Users, d \in {"d1", "d2"}}

PairOf(tok) == <<tok.userId, tok.deviceId>>

\* rows of the pair that are neither revoked nor expired at time t
ActiveOf(toks, pair, t) == {i \in 1..Len(toks) : PairOf(toks[i]) = pair /\ tokenActive(toks[i], t)}

AtMostOneActive == \A pair \in Pairs : Cardinality(ActiveOf(tokens, pair, now)) <= 1

\* a step of the issuance in slot s touches rows of its own pair only, and
\* when it answers, every row of the pair that was there before is inactive
IssuanceFrame(s) ==
  req'[s].kind = "issue" =>
    /\ \A i \in 1..Len(tokens) :
         PairOf(tokens[i]) # <<req'[s].in.userId, req'[s].in.deviceId>> => tokens'[i] = tokens[i]
    /\ req'[s].response = "TOKEN" /\ req[s].response # "TOKEN" =>
         /\ Len(tokens') = Len(tokens) + 1
         /\ ActiveOf(tokens', PairOf(tokens'[Len(tokens')]), now') = {Len(tokens')}

\* a punch changes nothing of a token but lastSeenAt
PunchFrame(s) ==
  req'[s].kind = "punch" =>
    /\ Len(tokens') = Len(tokens)
    /\ \A i \in 1..Len(tokens) : [tokens'[i] EXCEPT !.lastSeenAt = NoTime] = [tokens[i] EXCEPT !.lastSeenAt = NoTime]

-----------------------------------------------------------------------------
(* C9: with issuances and punches running one at a time, every             *)
(* (userId, deviceId) pair has at most one token that is neither revoked   *)
(* nor expired; an issuance for (u, d) revokes every token of (u, d) that  *)
(* was active and changes no token of another pair.                        *)

C9_OneActiveTokenPerPair ==
  /\ [] AtMostOneActive
  /\ [][\A s \in Slots : IssuanceFrame(s) /\ PunchFrame(s)]_vars

\* a second issuance for (u1, d1) has answered: the first token of the pair
\* is revoked while a token of another pair is still active
C9_Witness ==
  /\ req[1].kind = "issue" /\ req[1].response = "TOKEN"
  /\ \E i, j, k \in 1..Len(tokens) :
       /\ i < j
       /\ PairOf(tokens[i]) = PairOf(tokens[j])
       /\ tokens[i].revokedAt # NoTime
       /\ j = req[1].tokenRowId
       /\ PairOf(tokens[k]) # PairOf(tokens[j])
       /\ tokenActive(tokens[k], now)

-----------------------------------------------------------------------------
(* SpecConc: two requests of one worker on one device in flight at once,   *)
(* their steps interleaved at every await                                  *)

ConcMaxEvents == 2
ConcMaxTokens == 3

ConcConf ==
  [users |-> {"u1"}, types |-> {"CLOCK_IN"}, ips |-> {"ipA"}, geos |-> {NoGeo},
   devices |-> {"d1"}, keys |-> {"k1"}, clientTimes |-> {NoTime}, rawTokens |-> {1, 2}, userAgents |-> {"uaA"},
   maxEvents |-> ConcMaxEvents, maxTokens |-> ConcMaxTokens]

InitConc == InitAfter(0, OneToken)

NextConc ==
  \/ PunchSteps(1, ConcConf)
  \/ PunchSteps(2, ConcConf)
  \/ IssueSteps(1, ConcConf)
  \/ IssueSteps(2, ConcConf)
  \/ Return(1)
  \/ Return(2)

SpecConc == InitConc /\ [][NextConc]_vars

-----------------------------------------------------------------------------
(* C5: two punches with the same idempotency key processed concurrently    *)
(* result in exactly one OK event, the other being written BLOCKED with    *)
(* REUSED_IDEMPOTENCY_KEY; the log never holds two OK events with the key. *)

C5_OneOKPerKey ==
  \A i, j \in 1..Len(events) :
    /\ events[i].status = "OK" /\ events[j].status = "OK"
    /\ events[i].idempotencyKey # NoStr
    /\ events[i].idempotencyKey = events[j].idempotencyKey
    => i = j

-----------------------------------------------------------------------------
(* C10: when two issuances for the same (userId, deviceId) run             *)
(* concurrently, the pair still ends with at most one active token.        *)

C10_OneActiveAfterRace == InFlight("issue") = 0 => AtMostOneActive

-----------------------------------------------------------------------------
(* SpecTokenGate: u1 punches with every kind of token -- none, unknown,    *)
(* another worker's, another device's, superseded, expired, another        *)
(* browser's -- while tokens are re-issued and run out                     *)

TokenGateMaxEvents == 1
TokenGateMaxTicks == 1
TokenGateMaxTokens == 4

TokenGateConf ==
  [users |-> {"u1"}, types |-> {"CLOCK_IN", "CLOCK_OUT"}, ips |-> {"ipA"}, geos |-> {NoGeo},
   devices |-> {"d1", "d2"}, keys |-> {"k1"}, clientTimes |-> {NoTime}, rawTokens |-> {NoId, 1, 2, 3, 4, 9},
   userAgents |-> {"uaA", "uaB"},
   jumps |-> {TOKEN_TTL_MS - 3, TOKEN_TTL_MS - 2},
   maxEvents |-> TokenGateMaxEvents, maxTicks |-> TokenGateMaxTicks,
   maxTokens |-> TokenGateMaxTokens]

\* the issuances while SpecTokenGate runs are for u1 on d1 from browser uaA
TokenGateIssueConf ==
  [users |-> {"u1"}, devices |-> {"d1"}, userAgents |-> {"uaA"},
   maxTokens |-> TokenGateMaxTokens]

\* the state after three issuances -- (u1, d1) and (u2, d1) at time 0, then
\* (u1, d1) again at time 1, which revoked the first token -- and an
\* accepted CLOCK_IN of u1 with the third token at time 2
InitTokenGate ==
  /\ now = 2
  /\ ticks = 0
  /\ events = <<[okEvent("CLOCK_IN", 2, "k0") EXCEPT !.punchTokenId = 3]>>
  /\ tokens = <<[issuedToken(1, "u1", "d1", "uaA", 0) EXCEPT !.revokedAt = 1],
                issuedToken(2, "u2", "d1", "uaA", 0),
                [issuedToken(3, "u1", "d1", "uaA", 1) EXCEPT !.lastSeenAt = 2]>>
  /\ userHits = [u \in Users |-> IF u = "u1" THEN <<2>> ELSE <<>>]
  /\ ipHits = [k \in IpKeys |-> IF k = "ipA" THEN <<2>> ELSE <<>>]
  /\ req = [s \in Slots |-> IdleReq]
  /\ SideInit

NextTokenGate ==
  \/ PunchSteps(1, TokenGateConf)
  \/ IssueSteps(1, TokenGateIssueConf)
  \/ Return(1)
  \/ Ticks(TokenGateConf)

SpecTokenGate == InitTokenGate /\ [][NextTokenGate]_vars

\* a finished punch that passed every gate before the token gate
ReachedTokenGate(s) ==
  /\ DonePunch(s)
  /\ req[s].response \in {"INVALID_PUNCH_TOKEN", "INVALID_STATE", "OK"}

\* stored rows that make the token presented in slot s good
GoodRows(s) ==
  {i \in 1..Len(tokens) :
     /\ req[s].in.punchToken # NoId
     /\ tokens[i].tokenHash = sha256Hex(req[s].in.punchToken)
     /\ tokens[i].userId = req[s].in.userId
     /\ tokens[i].deviceId = req[s].in.deviceId
     /\ tokens[i].revokedAt = NoTime
     /\ tokens[i].expiresAt > req[s].serverNow
     /\ (tokens[i].userAgentHash = NoStr \/ tokens[i].userAgentHash = sha256Hex(req[s].in.userAgent))}

\* stored rows carrying the hash of the token presented in slot s
PresentedRows(s) ==
  {i \in 1..Len(tokens) :
     req[s].in.punchToken # NoId /\ tokens[i].tokenHash = sha256Hex(req[s].in.punchToken)}

-----------------------------------------------------------------------------
(* C11: the token gate lets a punch through only if a stored token has the *)
(* hash of the presented one, the caller's userId and deviceId, is not     *)
(* revoked, expires later than the server time and has the caller's        *)
(* user-agent hash; in every other case the punch is written BLOCKED with  *)
(* INVALID_PUNCH_TOKEN.                                                    *)

C11_TokenGate ==
  \A s \in Slots : ReachedTokenGate(s) =>
    IF GoodRows(s) # {}
      THEN req[s].response # "INVALID_PUNCH_TOKEN"
      ELSE /\ req[s].response = "INVALID_PUNCH_TOKEN"
           /\ \A i \in OwnEvents(req[s].attempt) :
                events[i].status = "BLOCKED" /\ events[i].reason = "INVALID_PUNCH_TOKEN"

\* a punch presenting the superseded token of its own pair and browser has
\* been rejected
C11_Witness ==
  /\ ReachedTokenGate(1)
  /\ req[1].response = "INVALID_PUNCH_TOKEN"
  /\ \E i \in PresentedRows(1) :
       /\ tokens[i].userId = req[1].in.userId
       /\ tokens[i].deviceId = req[1].in.deviceId
       /\ tokens[i].userAgentHash = sha256Hex(req[1].in.userAgent)
       /\ tokens[i].expiresAt > req[1].serverNow
       /\ tokens[i].revokedAt # NoTime

-----------------------------------------------------------------------------
(* C12: a token's expiresAt is its issue time plus 12 hours; no operation  *)
(* changes it or clears revokedAt; so no punch presenting a token is       *)
(* accepted 12 hours or more after that token was issued, however often    *)
(* the token was used in between.                                          *)

ExpiryFixed ==
  \A i \in 1..Len(tokens) : tokens[i].expiresAt = tokens[i].issuedAt + TOKEN_TTL_MS

NoLateAcceptance ==
  \A e \in Range(events) :
    e.status = "OK" /\ e.attempt > 0 =>
      /\ e.punchTokenId \in 1..Len(tokens)
      /\ e.serverTimestamp < tokens[e.punchTokenId].issuedAt + TOKEN_TTL_MS

NeverRenewed ==
  \A i \in 1..Len(tokens) :
    /\ tokens'[i].expiresAt = tokens[i].expiresAt
    /\ tokens'[i].issuedAt = tokens[i].issuedAt
    /\ tokens[i].revokedAt # NoTime => tokens'[i].revokedAt = tokens[i].revokedAt

C12_NeverRenewed ==
  /\ [] (ExpiryFixed /\ NoLateAcceptance)
  /\ [][Len(tokens') >= Len(tokens) /\ NeverRenewed]_vars

\* a token that was used for an accepted punch has been refused exactly 12
\* hours after its issue
C12_Witness ==
  /\ ReachedTokenGate(1)
  /\ req[1].response = "INVALID_PUNCH_TOKEN"
  /\ \E i \in PresentedRows(1) :
       /\ tokens[i].lastSeenAt # NoTime
       /\ tokens[i].revokedAt = NoTime
       /\ tokens[i].userAgentHash = sha256Hex(req[1].in.userAgent)
       /\ tokens[i].userId = req[1].in.userId
       /\ tokens[i].deviceId = req[1].in.deviceId
       /\ req[1].serverNow = tokens[i].issuedAt + TOKEN_TTL_MS

-----------------------------------------------------------------------------
(* SpecVerify: punches from inside and outside the warehouse network, with *)
(* every kind of location fix, by a worker on the bypass list and one not  *)

VerifyMaxEvents == 1

VerifyConf ==
  [users |-> {"u1", "u2"}, types |-> {"CLOCK_IN"}, ips |-> {"ipA", "ipB", NoStr},
   geos |-> {NoGeo, GeoNear, GeoFar, GeoVague, GeoBlurred, GeoPlain, GeoEdge},
   devices |-> {"d1", NoStr}, keys |-> {"k1"}, clientTimes |-> {NoTime}, rawTokens |-> {1}, userAgents |-> {"uaA"},
   maxEvents |-> VerifyMaxEvents]

InitVerify == InitAfter(0, OneToken)

NextVerify ==
  \/ PunchSteps(1, VerifyConf)
  \/ Return(1)

SpecVerify == InitVerify /\ [][NextVerify]_vars

\* the network channel: the allowlist answers PASS or DEV_BYPASS
NetworkPass(in) == WifiStatus(in.userId, in.ip) \in {"PASS", "DEV_BYPASS"}

\* the geofence channel: a coordinate, within the radius, accuracy absent or at most 200 m
GeofencePass(in) ==
  /\ in.geo.present
  /\ in.geo.distanceMm <= RADIUS_MM
  /\ (in.geo.accuracyMeters = NoAcc \/ in.geo.accuracyMeters <= MAX_ACCURACY_M)

\* the finished punch in slot s was rejected by the verification gate
FailedVerification(s) ==
  \/ req[s].response \in {"LOCATION_UNAVAILABLE", "ACCURACY_LOW", "OUT_OF_RANGE"}
  \/ req[s].response = "PERMISSION_DENIED" /\ req[s].in.deviceId # NoStr

-----------------------------------------------------------------------------
(* C13: a punch passes the verification gate iff the network channel is    *)
(* PASS or DEV_BYPASS or the geofence channel passes (coordinate present,  *)
(* distance <= radius, accuracy absent or <= 200 m).                       *)

C13_VerificationOr ==
  \A s \in Slots : DonePunch(s) =>
    (~FailedVerification(s) <=> (NetworkPass(req[s].in) \/ GeofencePass(req[s].in)))

\* network FAIL with geofence PASS has been let through
C13_Witness ==
  /\ DonePunch(1)
  /\ ~NetworkPass(req[1].in)
  /\ GeofencePass(req[1].in)
  /\ req[1].response = "OK"

-----------------------------------------------------------------------------
(* C14: when both channels fail the reason is LOCATION_UNAVAILABLE if no   *)
(* coordinate was sent, else ACCURACY_LOW if the accuracy exceeds 200 m    *)
(* (even out of range), else OUT_OF_RANGE if the distance exceeds the      *)
(* radius, else PERMISSION_DENIED.                                         *)

PriorityReason(in) ==
  IF ~in.geo.present THEN "LOCATION_UNAVAILABLE"
  ELSE IF in.geo.accuracyMeters # NoAcc /\ in.geo.accuracyMeters > MAX_ACCURACY_M THEN "ACCURACY_LOW"
  ELSE IF in.geo.distanceMm > RADIUS_MM THEN "OUT_OF_RANGE"
  ELSE "PERMISSION_DENIED"

C14_ReasonPriority ==
  \A s \in Slots :
    DonePunch(s) /\ ~NetworkPass(req[s].in) /\ ~GeofencePass(req[s].in) =>
      /\ req[s].response = PriorityReason(req[s].in)
      /\ \A i \in OwnEvents(req[s].attempt) :
           events[i].status = "BLOCKED" /\ events[i].reason = PriorityReason(req[s].in)

\* a fix that is both inaccurate and out of range has been rejected as inaccurate
C14_Witness ==
  /\ DonePunch(1)
  /\ ~NetworkPass(req[1].in)
  /\ req[1].in.geo = GeoVague
  /\ req[1].response = "ACCURACY_LOW"

-----------------------------------------------------------------------------
(* SpecLimiter: one InMemoryRateLimiter, hit on two keys while time passes *)

LimiterMaxCalls == 6
LimiterMaxTicks == 2

LimiterKeys == {"a", "b"}

\* BURST_IP_LIMITER and MIN_IP_PDF of the agency API
LimiterConfigs == {[windowMs |-> 1000, maxHits |-> 3], [windowMs |-> 60000, maxHits |-> 5]}

InitLimiter ==
  /\ now = 0
  /\ ticks = 0
  /\ events = <<>>
  /\ tokens = <<>>
  /\ userHits = [u \in Users |-> <<>>]
  /\ ipHits = [k \in IpKeys |-> <<>>]
  /\ req = [s \in Slots |-> IdleReq]
  /\ \E c \in LimiterConfigs :
       limiter = [windowMs |-> c.windowMs, maxHits |-> c.maxHits,
                  buckets |-> [k \in LimiterKeys |-> <<>>]]
  /\ lastHit = NoHit
  /\ agencyHits = [l \in AgencyLimiters |-> [b \in AgencyBuckets |-> <<>>]]
  /\ reply = NoReply
  /\ report = NoReport
  /\ signature = NoSignature
  /\ pdfCache = <<>>
  /\ pdf = NoPdf
  /\ answer = NoAnswer
  /\ wifi = NoWifi
  /\ me = NoMe

\* limiter.hit(key)
Hit(key) ==
  /\ lastHit.call < LimiterMaxCalls
  /\ LET h == hit(limiter.buckets[key], now, limiter.windowMs, limiter.maxHits)
     IN  /\ limiter' = [limiter EXCEPT !.buckets[key] = h.ts]
         /\ lastHit' = [call |-> lastHit.call + 1, key |-> key, at |-> now,
                        before |-> limiter.buckets[key], allowed |-> h.allowed,
                        remaining |-> h.remaining, retryAfterSeconds |-> h.retryAfterSeconds,
                        granted |-> IF h.allowed
                                      THEN Append(lastHit.granted, [key |-> key, at |-> now])
                                      ELSE lastHit.granted]
  /\ UNCHANGED <<now, ticks, events, tokens, userHits, ipHits, req, agencyHits, reply, report,
                 signature, pdfCache, pdf, answer, wifi, me>>

\* time passes between two hits: 1 ms, or up to 1 ms before the window is over
LimiterTicks ==
  /\ ticks < LimiterMaxTicks
  /\ \E d \in {1, limiter.windowMs - 1} : Tick(d)

NextLimiter ==
  \/ \E key \in LimiterKeys : Hit(key)
  \/ LimiterTicks

SpecLimiter == InitLimiter /\ [][NextLimiter]_vars

-----------------------------------------------------------------------------
(* C15: for a limiter of N hits per window W, after N allowed hits on a    *)
(* key inside one window the next hit on the key inside the window returns *)
(* allowed = false with retryAfterSeconds > 0, and a hit made once W has   *)
(* elapsed since the oldest recorded hit is allowed.                       *)

\* the recorded hits of the key that the last call found
Recorded == lastHit.before

C15_WindowLimit ==
  lastHit.call > 0 /\ Len(Recorded) > 0 =>
    /\ (Len(Recorded) = limiter.maxHits /\ lastHit.at - Recorded[1] < limiter.windowMs)
         => (~lastHit.allowed /\ lastHit.retryAfterSeconds > 0)
    /\ lastHit.at - Recorded[1] >= limiter.windowMs => lastHit.allowed

\* the same, for a hit made after more than W has elapsed
C15_AfterWindow ==
  lastHit.call > 0 /\ Len(Recorded) > 0 =>
    /\ (Len(Recorded) = limiter.maxHits /\ lastHit.at - Recorded[1] < limiter.windowMs)
         => (~lastHit.allowed /\ lastHit.retryAfterSeconds > 0)
    /\ lastHit.at - Recorded[1] > limiter.windowMs => lastHit.allowed

-----------------------------------------------------------------------------
(* Agency API: enforceAgencyRateLimit, run at the top of every endpoint    *)
(* for a request that the API-key hook has let through                     *)

\* BURST_KEY_LIMITER, BURST_IP_LIMITER and the per-minute pair of the route
AgencyLimiterConf(l, route) ==
  CASE l = "BURST_KEY" -> [windowMs |-> 1000, maxHits |-> 5]
    [] l = "BURST_IP" -> [windowMs |-> 1000, maxHits |-> 3]
    [] l = "MIN_KEY" -> [windowMs |-> 60000,
                         maxHits |-> IF route = "timecard/pdf" THEN 10 ELSE 60]
    [] l = "MIN_IP" -> [windowMs |-> 60000,
                        maxHits |-> IF route = "timecard/pdf" THEN 5 ELSE 30]

AgencyBucket(l, keyId, ip, route) ==
  IF l \in {"BURST_KEY", "MIN_KEY"} THEN <<keyId, route>> ELSE <<ip, route>>

\* mutant: the wait of the burst limiter of the key is reported whatever the others say
agencyRetryAfter_BurstKey(hits) == Max(hits["BURST_KEY"].retryAfterSeconds, 1)

\* Math.max of the four retryAfterSeconds and 1
agencyRetryAfter(hits) ==
  Max(Max(Max(hits["BURST_KEY"].retryAfterSeconds, hits["BURST_IP"].retryAfterSeconds),
          Max(hits["MIN_KEY"].retryAfterSeconds, hits["MIN_IP"].retryAfterSeconds)), 1)

\* the four hit() calls of one request
agencyLimiterHits(keyId, ip, route) ==
  [l \in AgencyLimiters |->
     hit(agencyHits[l][AgencyBucket(l, keyId, ip, route)], now,
         AgencyLimiterConf(l, route).windowMs, AgencyLimiterConf(l, route).maxHits)]

agencyAllowed(keyId, ip, route) ==
  \A l \in AgencyLimiters : agencyLimiterHits(keyId, ip, route)[l].allowed

enforceAgencyRateLimit(keyId, ip, route) ==
  LET hits == agencyLimiterHits(keyId, ip, route)
      seen == [l \in AgencyLimiters |->
                 [allowed |-> hits[l].allowed, retryAfterSeconds |-> hits[l].retryAfterSeconds]]
  IN  /\ agencyHits' = [l \in AgencyLimiters |->
                          [agencyHits[l] EXCEPT ![AgencyBucket(l, keyId, ip, route)] = hits[l].ts]]
      /\ reply' = IF agencyAllowed(keyId, ip, route)
                    THEN [call |-> reply.call + 1, status |-> 200, retryAfterHeader |-> 0,
                          retryAfterSeconds |-> 0, hits |-> seen]
                    ELSE [call |-> reply.call + 1, status |-> 429,
                          retryAfterHeader |-> agencyRetryAfter(hits),
                          retryAfterSeconds |-> agencyRetryAfter(hits), hits |-> seen]
      /\ UNCHANGED <<now, ticks, events, tokens, userHits, ipHits, req, limiter, lastHit, signature, wifi, me>>

\* a request to an agency endpoint as far as its rate limit goes
AgencyRequest(keyId, ip, route) ==
  /\ enforceAgencyRateLimit(keyId, ip, route)
  /\ UNCHANGED <<report, pdfCache, pdf, answer>>

-----------------------------------------------------------------------------
(* SpecAgency: /timecard/pdf and /timecard/daily-rows asked for by two     *)
(* keys from one address, from a fresh server or after five PDF requests   *)

AgencyMaxCalls == 4
AgencyMaxTicks == 2

\* the state after five /timecard/pdf requests of keyP from ipX, three at
\* time 0 and two at time 1001, all answered 200
AfterFivePdf ==
  LET b == <<"keyP", "timecard/pdf">>
      i == <<"ipX", "timecard/pdf">>
      fresh == [x \in AgencyBuckets |-> <<>>]
  IN  [l \in AgencyLimiters |->
         CASE l = "BURST_KEY" -> [fresh EXCEPT ![b] = <<1001, 1001>>]
           [] l = "BURST_IP" -> [fresh EXCEPT ![i] = <<1001, 1001>>]
           [] l = "MIN_KEY" -> [fresh EXCEPT ![b] = <<0, 0, 0, 1001, 1001>>]
           [] l = "MIN_IP" -> [fresh EXCEPT ![i] = <<0, 0, 0, 1001, 1001>>]]

InitAgency ==
  /\ ticks = 0
  /\ events = <<>>
  /\ tokens = <<>>
  /\ userHits = [u \in Users |-> <<>>]
  /\ ipHits = [k \in IpKeys |-> <<>>]
  /\ req = [s \in Slots |-> IdleReq]
  /\ limiter = NoLimiter
  /\ lastHit = NoHit
  /\ reply = NoReply
  /\ report = NoReport
  /\ signature = NoSignature
  /\ pdfCache = <<>>
  /\ pdf = NoPdf
  /\ answer = NoAnswer
  /\ wifi = NoWifi
  /\ me = NoMe
  /\ \/ now = 0 /\ agencyHits = [l \in AgencyLimiters |-> [b \in AgencyBuckets |-> <<>>]]
     \/ now = 1001 /\ agencyHits = AfterFivePdf

AgencyRequests ==
  /\ reply.call < AgencyMaxCalls
  /\ \E keyId \in AgencyKeyIds, route \in {"timecard/pdf", "timecard/daily-rows"} :
       AgencyRequest(keyId, "ipX", route)

AgencyTicks ==
  /\ ticks < AgencyMaxTicks
  /\ \E d \in {1, 999} : Tick(d)

NextAgency ==
  \/ AgencyRequests
  \/ AgencyTicks

SpecAgency == InitAgency /\ [][NextAgency]_vars

\* the limiters that disallowed the last request
Rejecting == {l \in AgencyLimiters : ~reply.hits[l].allowed}

MaxWait(ls) ==
  IF ls = {} THEN 0
  ELSE CHOOSE m \in {reply.hits[l].retryAfterSeconds : l \in ls} :
         \A l \in ls : reply.hits[l].retryAfterSeconds <= m

-----------------------------------------------------------------------------
(* C16: an agency request is answered 429 iff at least one of the four     *)
(* limiters disallows it; the retryAfterSeconds of the body and the        *)
(* Retry-After header are the maximum retryAfterSeconds among the          *)
(* rejecting limiters, raised to 1 if that is less.                        *)

C16_RetryAfterIsMax ==
  reply.call > 0 =>
    /\ reply.status = 429 <=> Rejecting # {}
    /\ reply.status = 200 <=> Rejecting = {}
    /\ reply.status = 429 =>
         /\ reply.retryAfterSeconds = Max(MaxWait(Rejecting), 1)
         /\ reply.retryAfterHeader = reply.retryAfterSeconds
         /\ reply.retryAfterSeconds >= 1

\* two limiters have rejected with different waits and the longer one is reported
C16_Witness ==
  /\ reply.status = 429
  /\ \E l, m \in Rejecting :
       /\ reply.hits[l].retryAfterSeconds < reply.hits[m].retryAfterSeconds
       /\ reply.hits[l].retryAfterSeconds >= 1
       /\ reply.retryAfterSeconds = reply.hits[m].retryAfterSeconds

-----------------------------------------------------------------------------
(* SpecDrift: one punch at a time, ten minutes after the token was issued, *)
(* with client clocks behind, ahead and level with the server's, on either *)
(* side of the five-minute mark                                            *)

DriftMaxEvents == 1

DriftStart == 10 * 60 * 1000

DriftConf ==
  [users |-> {"u1"}, types |-> {"CLOCK_IN", "CLOCK_OUT"}, ips |-> {"ipA", "ipB"},
   geos |-> {NoGeo, GeoFar}, devices |-> {"d1", NoStr}, keys |-> {"k1", NoStr},
   clientTimes |-> {NoTime, DriftStart + 1,
                    DriftStart + 1 - DRIFT_FLAG_MS, DriftStart + 2 - DRIFT_FLAG_MS,
                    DriftStart + DRIFT_FLAG_MS, DriftStart + 1 + DRIFT_FLAG_MS},
   rawTokens |-> {NoId, 1}, userAgents |-> {"uaA"}, maxEvents |-> DriftMaxEvents]

\* the state after one issuance for (u1, d1) at time 0, ten idle minutes and
\* then n punches of u1 from ipA, 1 ms apart, none carrying an idempotency
\* key or a client timestamp
InitDriftAfter(n) ==
  /\ now = DriftStart + n
  /\ ticks = 0
  /\ events = [i \in 1..n |->
       [NoEvent EXCEPT !.deviceId = "d1", !.userId = "u1", !.agency = Profile("u1").agency,
                       !.type = "CLOCK_IN", !.status = "BLOCKED", !.verificationMethod = "wifi",
                       !.reason = "MISSING_IDEMPOTENCY_KEY", !.serverTimestamp = DriftStart + i,
                       !.createdAt = DriftStart + i]]
  /\ tokens = OneToken
  /\ userHits = [u \in Users |-> IF u = "u1" THEN [i \in 1..n |-> DriftStart + i] ELSE <<>>]
  /\ ipHits = [k \in IpKeys |-> IF k = "ipA" THEN [i \in 1..n |-> DriftStart + i] ELSE <<>>]
  /\ req = [s \in Slots |-> IdleReq]
  /\ SideInit

InitDrift == InitDriftAfter(0) \/ InitDriftAfter(USER_PUNCH_MAX)

NextDrift ==
  \/ PunchSteps(1, DriftConf)
  \/ Return(1)

SpecDrift == InitDrift /\ [][NextDrift]_vars

\* hits of earlier requests that a hit at time t still counts
CountedBefore(ts, t) ==
  Cardinality({j \in 1..Len(ts) : ts[j] < t /\ ts[j] >= t - PUNCH_WINDOW_MS})

\* What the state found by the request in slot s and its inputs other than
\* clientReportedTimestamp make of it: the earliest failing gate, or OK.
\* Nothing here reads the client's clock or the drift fields of an event.
OutcomeWithoutClientTime(s) ==
  LET in == req[s].in
      t == req[s].serverNow
  IN  IF ~wifiOk(in) /\ ~locOk(in) THEN verificationReason(in)
      ELSE IF in.deviceId = NoStr THEN "PERMISSION_DENIED"
      ELSE IF \/ CountedBefore(ipHits[ipKey(in.ip)], t) >= IP_PUNCH_MAX
              \/ CountedBefore(userHits[in.userId], t) >= USER_PUNCH_MAX
        THEN "RATE_LIMITED"
      ELSE IF in.idempotencyKey = NoStr THEN "MISSING_IDEMPOTENCY_KEY"
      ELSE IF C8_keyReused(s) THEN "REUSED_IDEMPOTENCY_KEY"
      ELSE IF C8_tokenRejected(s) THEN "INVALID_PUNCH_TOKEN"
      ELSE IF C8_sequenceRejected(s) THEN "INVALID_STATE"
      ELSE "OK"

\* the event of the request in slot s as it would be stored had no client time been sent
WithoutClientTime(e) ==
  [e EXCEPT !.clientReportedTimestamp = NoTime, !.clientTimeDriftMs = 0,
            !.clientTimeDriftFlag = "null"]

-----------------------------------------------------------------------------
(* C17: clock drift never blocks a punch.  Status and reason of a punch    *)
(* are a function of the state it finds and of its inputs other than       *)
(* clientReportedTimestamp, so that two requests differing only in that    *)
(* field, run from the same state, get the same status and reason; the     *)
(* field reaches the stored event only in clientReportedTimestamp,         *)
(* clientTimeDriftMs = serverTimestamp - clientReportedTimestamp and       *)
(* clientTimeDriftFlag, which is true exactly when |drift| >= 5 minutes.   *)

C17_DriftNeverBlocks ==
  \A s \in Slots : DonePunch(s) =>
    LET in == req[s].in
        t == req[s].serverNow
        ct == in.clientReportedTimestamp
        outcome == OutcomeWithoutClientTime(s)
    IN  /\ req[s].response = outcome
        /\ \A i \in OwnEvents(req[s].attempt) :
             /\ events[i].status = (IF outcome = "OK" THEN "OK" ELSE "BLOCKED")
             /\ events[i].reason = (IF outcome = "OK" THEN NoStr ELSE outcome)
             /\ events[i].serverTimestamp = t
             /\ WithoutClientTime(events[i]) =
                  [baseEvent(req[s].attempt, [in EXCEPT !.clientReportedTimestamp = NoTime], t)
                     EXCEPT !.status = events[i].status, !.reason = events[i].reason,
                            !.createdAt = events[i].createdAt,
                            !.punchTokenId = events[i].punchTokenId]
             /\ events[i].clientReportedTimestamp = ct
             /\ IF ct = NoTime
                  THEN events[i].clientTimeDriftFlag = "null"
                  ELSE /\ events[i].clientTimeDriftMs = t - ct
                       /\ events[i].clientTimeDriftFlag \in {"true", "false"}
                       /\ events[i].clientTimeDriftFlag = "true" <=>
                            (t - ct >= 5 * 60 * 1000 \/ ct - t >= 5 * 60 * 1000)

\* a punch whose client clock is exactly five minutes behind is accepted and flagged
C17_Witness ==
  /\ DonePunch(1)
  /\ req[1].response = "OK"
  /\ req[1].serverNow - req[1].in.clientReportedTimestamp = 5 * 60 * 1000
  /\ \E i \in OwnEvents(req[1].attempt) :
       events[i].status = "OK" /\ events[i].clientTimeDriftFlag = "true"

-----------------------------------------------------------------------------
(* Weekly reconstruction: buildWeeklyDailyRows (employee portal) and       *)
(* buildDailyRows (agency API).  Dates are UTC day numbers, hours are kept *)
(* in milliseconds (hours = hoursMs / 3 600 000).                          *)

DAY_MS == 24 * 60 * 60000
HOUR_MS == 3600000
QUERY_MARGIN_MS == 12 * 60 * 60000
LUNCH_DEDUCTION_MS == 30 * 60000

\* the em dash the source prints for "nothing"
DASH == "--"

\* d.toISOString().slice(0, 10)
dayKeyUTC(t) == t \div DAY_MS

getUTCHours(t) == (t % DAY_MS) \div HOUR_MS

addDays(t, days) == t + days * DAY_MS

verifiedLabel(m) ==
  CASE m = "none" -> DASH
    [] m = "wifi" -> "Wi-Fi"
    [] m = "location" -> "Location"
    [] m = "both" -> "Wi-Fi + Location"
    [] OTHER -> m

\* .filter((v, idx, arr) => (idx === 0 ? true : v !== arr[idx - 1]))
RECURSIVE dropRepeats(_, _)
dropRepeats(seq, i) ==
  IF i > Len(seq) THEN <<>>
  ELSE (IF i = 1 \/ seq[i] # seq[i - 1] THEN <<seq[i]>> ELSE <<>>) \o dropRepeats(seq, i + 1)

\* findMany({ userId, status: 'OK', serverTimestamp: { gte: queryFrom, lt: queryTo } }), ascending;
\* the agency API adds agency to the filter, the employee portal passes NoStr
findManyOK(log, agency, userId, from, to) ==
  SortSeq(SelectSeq(log, LAMBDA e :
            /\ e.userId = userId
            /\ e.status = "OK"
            /\ agency # NoStr => e.agency = agency
            /\ e.serverTimestamp >= from - QUERY_MARGIN_MS
            /\ e.serverTimestamp < to + QUERY_MARGIN_MS),
          byServerTimestamp)

\* mutant: a clock-in at 18:00 sharp still counts as a day shift
shiftTypeAt_Until18(clockInAt) ==
  IF getUTCHours(clockInAt) >= 6 /\ getUTCHours(clockInAt) <= 18 THEN "DAY" ELSE "NIGHT"

\* e.shiftType ?? (hours in [6, 18) ? 'DAY' : 'NIGHT'); no code writes shiftType, so it is null
shiftTypeAt(clockInAt) ==
  IF getUTCHours(clockInAt) >= 6 /\ getUTCHours(clockInAt) < 18 THEN "DAY" ELSE "NIGHT"

\* mutant: the signature is looked for on the CLOCK_IN row
segmentOf_SignedIn(raw, open, i) ==
  [clockInAt |-> raw[open].serverTimestamp,
   clockOutAt |-> raw[i].serverTimestamp,
   ms |-> Max(0, raw[i].serverTimestamp - raw[open].serverTimestamp),
   shiftType |-> shiftTypeAt(raw[open].serverTimestamp),
   verifiedSeq |->
     dropRepeats(SelectSeq([k \in 1..(i - open + 1) |-> verifiedLabel(raw[open + k - 1].verificationMethod)],
                           LAMBDA v : v # DASH), 1),
   signed |-> raw[open].signedAt # NoTime \/ raw[open].signaturePngBase64 # NoStr,
   signaturePngBase64 |-> raw[open].signaturePngBase64]

\* the segment closed by the CLOCK_OUT raw[i] for the CLOCK_IN raw[open]; the
\* image is kept by the employee portal's builder only, the other never reads it
segmentOf(raw, open, i) ==
  [clockInAt |-> raw[open].serverTimestamp,
   clockOutAt |-> raw[i].serverTimestamp,
   ms |-> Max(0, raw[i].serverTimestamp - raw[open].serverTimestamp),
   shiftType |-> shiftTypeAt(raw[open].serverTimestamp),
   verifiedSeq |->
     dropRepeats(SelectSeq([k \in 1..(i - open + 1) |-> verifiedLabel(raw[open + k - 1].verificationMethod)],
                           LAMBDA v : v # DASH), 1),
   signed |-> raw[i].signedAt # NoTime \/ raw[i].signaturePngBase64 # NoStr,
   signaturePngBase64 |-> raw[i].signaturePngBase64]

\* mutant: a CLOCK_IN met while another is open does not take its place
RECURSIVE pairSegments_KeepOpen(_, _, _, _)
pairSegments_KeepOpen(raw, i, open, segments) ==
  IF i > Len(raw) THEN segments
  ELSE IF raw[i].type = "CLOCK_IN"
    THEN pairSegments_KeepOpen(raw, i + 1, IF open = 0 THEN i ELSE open, segments)
  ELSE IF open = 0 THEN pairSegments_KeepOpen(raw, i + 1, 0, segments)
  ELSE IF raw[i].type # "CLOCK_OUT" THEN pairSegments_KeepOpen(raw, i + 1, open, segments)
  ELSE pairSegments_KeepOpen(raw, i + 1, 0, Append(segments, segmentOf(raw, open, i)))

\* the pairing loop; open is the position of the open CLOCK_IN, 0 for none
RECURSIVE pairSegments(_, _, _, _)
pairSegments(raw, i, open, segments) ==
  IF i > Len(raw) THEN segments
  ELSE IF raw[i].type = "CLOCK_IN" THEN pairSegments(raw, i + 1, i, segments)
  ELSE IF open = 0 THEN pairSegments(raw, i + 1, 0, segments)
  ELSE IF raw[i].type # "CLOCK_OUT" THEN pairSegments(raw, i + 1, open, segments)
  ELSE pairSegments(raw, i + 1, 0, Append(segments, segmentOf(raw, open, i)))

RECURSIVE sumMs(_, _)
sumMs(segs, i) == IF i > Len(segs) THEN 0 ELSE segs[i].ms + sumMs(segs, i + 1)

RECURSIVE joinVerified(_, _)
joinVerified(segs, i) ==
  IF i > Len(segs) THEN <<>> ELSE segs[i].verifiedSeq \o joinVerified(segs, i + 1)

\* mutant: every segment loses its own half hour
workedMs_PerSegment(segs) ==
  LET RECURSIVE each(_)
      each(i) == IF i > Len(segs) THEN 0
                 ELSE Max(0, segs[i].ms - LUNCH_DEDUCTION_MS) + each(i + 1)
  IN  each(1)

\* hasWork, lunchMs and the numerator of hours
workedMs(segs) ==
  LET totalMs == sumMs(segs, 1)
      lunchMs == IF totalMs > 0 THEN LUNCH_DEDUCTION_MS ELSE 0
  IN  Max(0, totalMs - lunchMs)

\* mutant: a transition names the first two methods of the day
verifiedViaOf_FirstTwo(segs, hasWork) ==
  LET normalizedMethods == dropRepeats(joinVerified(segs, 1), 1)
      distinct == {normalizedMethods[i] : i \in 1..Len(normalizedMethods)}
  IN  IF ~hasWork THEN <<DASH>>
      ELSE IF Cardinality(distinct) <= 1
        THEN (IF Len(normalizedMethods) > 0 THEN <<normalizedMethods[1]>> ELSE <<DASH>>)
      ELSE <<normalizedMethods[1], normalizedMethods[2]>>

\* the label of a day: <<DASH>>, <<A>> for one method, <<A, B>> for `A -> B`
verifiedViaOf(segs, hasWork) ==
  LET normalizedMethods == dropRepeats(joinVerified(segs, 1), 1)
      distinct == {normalizedMethods[i] : i \in 1..Len(normalizedMethods)}
  IN  IF ~hasWork THEN <<DASH>>
      ELSE IF Cardinality(distinct) <= 1
        THEN (IF Len(normalizedMethods) > 0 THEN <<normalizedMethods[1]>> ELSE <<DASH>>)
      ELSE <<normalizedMethods[1], normalizedMethods[Len(normalizedMethods)]>>

\* body of dayKeys.map((key, idx) => ...); signed is "null", "true" or "false"
dayRow(segments, key, idx) ==
  LET segs == SelectSeq(segments, LAMBDA g : dayKeyUTC(g.clockInAt) = key)
      ins == {segs[i].clockInAt : i \in 1..Len(segs)}
      outs == {segs[i].clockOutAt : i \in 1..Len(segs)}
      hasWork == sumMs(segs, 1) > 0
      hasSignature == \E i \in 1..Len(segs) : segs[i].signed
  IN  [dayIndex |-> idx,
       date |-> key,
       shift |-> IF hasWork THEN segs[1].shiftType ELSE DASH,
       timeIn |-> IF ins = {} THEN NoTime ELSE CHOOSE t \in ins : \A u \in ins : t <= u,
       timeOut |-> IF outs = {} THEN NoTime ELSE CHOOSE t \in outs : \A u \in outs : t >= u,
       lunchMinutes |-> IF hasWork THEN 30 ELSE 0,
       hoursMs |-> workedMs(segs),
       verifiedVia |-> verifiedViaOf(segs, hasWork),
       signed |-> IF ~hasWork THEN "null" ELSE IF hasSignature THEN "true" ELSE "false"]

\* mutant: the week begins on the day after `from`
dayKeys_FromTomorrow(from) == [i \in 1..7 |-> dayKeyUTC(addDays(from, i))]

dayKeys(from) == [i \in 1..7 |-> dayKeyUTC(addDays(from, i - 1))]

RECURSIVE sumHoursMs(_, _)
sumHoursMs(rows, i) == IF i > Len(rows) THEN 0 ELSE rows[i].hoursMs + sumHoursMs(rows, i + 1)

\* what both builders do once the events are loaded
rowsAndTotals(raw, from) ==
  LET segments == pairSegments(raw, 1, 0, <<>>)
      rows == [i \in 1..7 |-> dayRow(segments, dayKeys(from)[i], i - 1)]
  IN  [segments |-> segments, rows |-> rows, totals |-> [hoursMs |-> sumHoursMs(rows, 1)]]

\* signaturePngBase64 ||= s.signaturePngBase64 ?? null over the signed segments
RECURSIVE firstSignature(_, _)
firstSignature(segs, i) ==
  IF i > Len(segs) THEN NoStr
  ELSE IF segs[i].signed /\ segs[i].signaturePngBase64 # NoStr THEN segs[i].signaturePngBase64
  ELSE firstSignature(segs, i + 1)

\* the employee portal's rows carry the image of the day's signature as well
buildWeeklyDailyRows(log, userId, from, to) ==
  LET built == rowsAndTotals(findManyOK(log, NoStr, userId, from, to), from)
      image(key) ==
        firstSignature(SelectSeq(built.segments, LAMBDA g : dayKeyUTC(g.clockInAt) = key), 1)
  IN  [built EXCEPT !.rows =
         [i \in 1..7 |-> built.rows[i] @@ [signaturePngBase64 |-> image(built.rows[i].date)]]]

\* mutant: the agency's query is not widened by twelve hours on either side
buildDailyRows_NoMargin(log, agency, userId, from, to) ==
  rowsAndTotals(findManyOK(log, agency, userId, from + QUERY_MARGIN_MS, to - QUERY_MARGIN_MS), from)

buildDailyRows(log, agency, userId, from, to) ==
  rowsAndTotals(findManyOK(log, agency, userId, from, to), from)

\* requireAgencyApiKey: the agency a key stands for
AgencyOfKey(keyId) == IF keyId = "keyP" THEN "PROLOGISTIX" ELSE "STAFF_FORCE"

\* GET /staffing/my-times/export.pdf, up to the rows it prints
MyTimes(userId, from, to) ==
  /\ Idle
  /\ Profile(userId).exists
  /\ LET built == buildWeeklyDailyRows(events, userId, from, to)
     IN  report' = [call |-> report.call + 1, builder |-> "weekly", userId |-> userId,
                    agency |-> NoStr, from |-> from, to |-> to,
                    segments |-> built.segments, rows |-> built.rows, totals |-> built.totals]
  /\ UNCHANGED <<now, ticks, events, tokens, userHits, ipHits, req, limiter, lastHit, agencyHits, reply,
                 signature, pdfCache, pdf, answer, wifi, me>>

\* GET /timecard/daily-rows
TimecardDailyRows(keyId, ip, userId, from, to) ==
  /\ enforceAgencyRateLimit(keyId, ip, "timecard/daily-rows")
  /\ LET built == buildDailyRows(events, AgencyOfKey(keyId), userId, from, to)
     IN  report' = IF agencyAllowed(keyId, ip, "timecard/daily-rows")
                     THEN [call |-> report.call, builder |-> "daily", userId |-> userId,
                           agency |-> AgencyOfKey(keyId), from |-> from, to |-> to,
                           segments |-> built.segments, rows |-> built.rows, totals |-> built.totals]
                     ELSE report
  /\ UNCHANGED <<pdfCache, pdf>>

-----------------------------------------------------------------------------
(* SpecWeekly: timecards of u1 asked for by u1 and by two agencies, over   *)
(* every log u1 can have punched at a handful of instants of two days      *)

WeeklyMaxEvents == 4
WeeklyMaxRequests == 1

\* 00:00 UTC of the first of the two days
WEEK0 == 7 * DAY_MS

\* 08:00, 08:20, 12:00, 13:00, 16:30 and 18:00 of the first day, 02:30 of the second
WeekInstants ==
  <<WEEK0 + 8 * HOUR_MS, WEEK0 + 8 * HOUR_MS + 20 * 60000, WEEK0 + 12 * HOUR_MS,
    WEEK0 + 13 * HOUR_MS, WEEK0 + 16 * HOUR_MS + 30 * 60000, WEEK0 + 18 * HOUR_MS,
    WEEK0 + DAY_MS + 2 * HOUR_MS + 30 * 60000>>

\* the token of (u1, d1) issued at 07:00 and the one issued at 17:00 in its place
WeekTokenAt(k) == IF WeekInstants[k] < WEEK0 + 17 * HOUR_MS THEN 1 ELSE 2

\* the OK event of a punch of u1 at the k-th instant
weekEvent(k, type) ==
  [NoEvent EXCEPT !.deviceId = "d1", !.userId = "u1", !.agency = Profile("u1").agency, !.type = type,
                  !.status = "OK", !.verificationMethod = "wifi",
                  !.serverTimestamp = WeekInstants[k], !.createdAt = WeekInstants[k],
                  !.idempotencyKey = <<"w", k>>, !.punchTokenId = WeekTokenAt(k)]

RECURSIVE weekLog(_, _, _)
weekLog(S, ty, k) ==
  IF k > Len(WeekInstants) THEN <<>>
  ELSE (IF k \in S THEN <<weekEvent(k, ty[k])>> ELSE <<>>) \o weekLog(S, ty, k + 1)

\* each event was acceptable to the sequencing gate when it was punched
Punchable(log) ==
  \A i \in 1..Len(log) :
    ~invalidState(log[i].type, deriveClockState(SubSeq(log, 1, i - 1), log[i].serverTimestamp))

LastOf(S, n) == IF S = {} THEN NoTime ELSE WeekInstants[CHOOSE k \in S : \A j \in S : j <= k]

\* the state two days after WEEK0, all requests answered
InitWeek(n) ==
  /\ now = WEEK0 + 2 * DAY_MS
  /\ ticks = 0
  /\ \E S \in SUBSET (1..Len(WeekInstants)) :
       /\ Cardinality(S) <= n
       /\ \E ty \in [S -> EventTypes] :
            /\ Punchable(weekLog(S, ty, 1))
            /\ events = weekLog(S, ty, 1)
       /\ tokens =
            <<[issuedToken(1, "u1", "d1", "uaA", WEEK0 + 7 * HOUR_MS) EXCEPT
                 !.revokedAt = WEEK0 + 17 * HOUR_MS,
                 !.lastSeenAt = LastOf({k \in S : WeekTokenAt(k) = 1}, 1)],
              [issuedToken(2, "u1", "d1", "uaA", WEEK0 + 17 * HOUR_MS) EXCEPT
                 !.lastSeenAt = LastOf({k \in S : WeekTokenAt(k) = 2}, 2)]>>
       /\ userHits = [u \in Users |-> IF u = "u1" /\ S # {} THEN <<LastOf(S, 0)>> ELSE <<>>]
       /\ ipHits = [k \in IpKeys |-> IF k = "ipA" /\ S # {} THEN <<LastOf(S, 0)>> ELSE <<>>]
  /\ req = [s \in Slots |-> IdleReq]
  /\ SideInit

InitWeekly == InitWeek(WeeklyMaxEvents)

\* dateFrom: the first day, six days before it, and 21:00 of the first day
WeekFroms == {WEEK0, WEEK0 - 6 * DAY_MS, WEEK0 + 21 * HOUR_MS}

\* dateTo - dateFrom: a week, or half a day
WeekSpans == {7 * DAY_MS, 12 * HOUR_MS}

MyTimesRequests ==
  /\ report.call + reply.call < WeeklyMaxRequests
  /\ \E from \in WeekFroms, span \in WeekSpans : MyTimes("u1", from, from + span)

\* the agency of u1 asks for every range, the other agency for the first week
DailyRowsRequests ==
  /\ report.call + reply.call < WeeklyMaxRequests
  /\ \/ \E from \in WeekFroms, span \in WeekSpans :
          TimecardDailyRows("keyP", "ipX", "u1", from, from + span)
     \/ TimecardDailyRows("keyS", "ipX", "u1", WEEK0, WEEK0 + 7 * DAY_MS)
  /\ UNCHANGED answer

NextWeekly ==
  \/ MyTimesRequests
  \/ DailyRowsRequests

SpecWeekly == InitWeekly /\ [][NextWeekly]_vars

\* a report has been produced
Reported == report.builder # NoStr

\* positions in the log of the events a report is built from
Loaded ==
  {i \in 1..Len(events) :
     /\ events[i].userId = report.userId
     /\ events[i].status = "OK"
     /\ report.builder = "daily" => events[i].agency = report.agency
     /\ events[i].serverTimestamp >= report.from - 12 * HOUR_MS
     /\ events[i].serverTimestamp < report.to + 12 * HOUR_MS}

\* a CLOCK_IN and the first CLOCK_OUT after it, with no other CLOCK_IN in between
WorkedPairs ==
  {p \in Loaded \X Loaded :
     /\ events[p[1]].type = "CLOCK_IN"
     /\ events[p[2]].type = "CLOCK_OUT"
     /\ events[p[1]].serverTimestamp < events[p[2]].serverTimestamp
     /\ \A k \in Loaded :
          (/\ events[p[1]].serverTimestamp < events[k].serverTimestamp
           /\ events[k].serverTimestamp < events[p[2]].serverTimestamp)
          => events[k].type \notin {"CLOCK_IN", "CLOCK_OUT"}}

\* the pairs clocked in on UTC day d
PairsOn(d) == {p \in WorkedPairs : events[p[1]].serverTimestamp \div DAY_MS = d}

PairMs(p) == events[p[2]].serverTimestamp - events[p[1]].serverTimestamp

RECURSIVE TotalMs(_)
TotalMs(ps) ==
  IF ps = {} THEN 0 ELSE LET p == CHOOSE q \in ps : TRUE IN PairMs(p) + TotalMs(ps \ {p})

RECURSIVE SumOfHours(_)
SumOfHours(is) ==
  IF is = {} THEN 0
  ELSE LET i == CHOOSE j \in is : TRUE IN report.rows[i].hoursMs + SumOfHours(is \ {i})

-----------------------------------------------------------------------------
(* C18: a reconstruction returns exactly 7 day rows, for the UTC dates of  *)
(* from, from + 1 day, ..., from + 6 days, and one totals value, for every *)
(* log and range, an empty log included; totals.hours is the sum of the 7  *)
(* rows' hours; a day without work has shift and verifiedVia set to the    *)
(* dash, signed null and hours 0.                                          *)

C18_SevenRowsAndTotals ==
  Reported =>
    /\ Len(report.rows) = 7
    /\ \A i \in 1..7 :
         /\ report.rows[i].dayIndex = i - 1
         /\ report.rows[i].date = (report.from + (i - 1) * 24 * HOUR_MS) \div (24 * HOUR_MS)
         /\ TotalMs(PairsOn(report.rows[i].date)) = 0 =>
              /\ report.rows[i].shift = DASH
              /\ report.rows[i].verifiedVia = <<DASH>>
              /\ report.rows[i].signed = "null"
              /\ report.rows[i].hoursMs = 0
    /\ report.totals.hoursMs = SumOfHours(1..7)

\* a week with a worked day and an idle day, asked for from 21:00 of the worked day
C18_Witness ==
  /\ Reported
  /\ report.from % DAY_MS # 0
  /\ report.totals.hoursMs > 0
  /\ \E i, j \in 1..7 : report.rows[i].hoursMs > 0 /\ report.rows[j].shift = DASH

-----------------------------------------------------------------------------
(* C19: the 30-minute lunch is deducted once per day with work, never per  *)
(* segment: a day with k >= 1 completed segments of total duration T has   *)
(* hours = max(0, T - 30 min) / 1 h.                                       *)

C19_LunchOncePerDay ==
  Reported =>
    \A i \in 1..Len(report.rows) :
      LET T == TotalMs(PairsOn(report.rows[i].date))
      IN  PairsOn(report.rows[i].date) # {} =>
            /\ report.rows[i].hoursMs = (IF T > 30 * 60000 THEN T - 30 * 60000 ELSE 0)
            /\ report.rows[i].lunchMinutes = 30

\* a day with two segments, each longer than the lunch, has lost 30 minutes in all
C19_Witness ==
  /\ Reported
  /\ \E i \in 1..7 :
       /\ Cardinality(PairsOn(report.rows[i].date)) = 2
       /\ \A p \in PairsOn(report.rows[i].date) : PairMs(p) > 30 * 60000
       /\ report.rows[i].hoursMs = TotalMs(PairsOn(report.rows[i].date)) - 30 * 60000

\* the pairs clocked in at 18:00 UTC and out at 02:30 of the next day
NightPairs ==
  {p \in WorkedPairs :
     /\ events[p[1]].serverTimestamp % (24 * HOUR_MS) = 18 * HOUR_MS
     /\ events[p[2]].serverTimestamp = events[p[1]].serverTimestamp + 8 * HOUR_MS + 30 * 60000}

\* rows i and j are the clock-in day and the day after of a lone 18:00 - 02:30 segment
NightShiftRows(p, i, j) ==
  /\ p \in NightPairs
  /\ PairsOn(report.rows[i].date) = {p}
  /\ report.rows[i].date = events[p[1]].serverTimestamp \div (24 * HOUR_MS)
  /\ j = i + 1
  /\ PairsOn(report.rows[j].date) = {}

-----------------------------------------------------------------------------
(* C20, as the spec has it: a single segment from 18:00 to 02:30 of the    *)
(* next day is attributed to the clock-in day, whose row has shift NIGHT   *)
(* and hours 7.50; the next day's row receives no hours from it.           *)

C20_NightShiftSevenAndAHalf ==
  Reported =>
    \A p \in WorkedPairs : \A i \in 1..6, j \in 2..7 :
      NightShiftRows(p, i, j) =>
        /\ report.rows[i].shift = "NIGHT"
        /\ report.rows[i].hoursMs = 7 * HOUR_MS + 30 * 60000
        /\ report.rows[j].hoursMs = 0

(* C20, amended: a single segment from 18:00 to 02:30 of the next day      *)
(* lasts 8.5 hours; the whole of it is attributed to the clock-in day,     *)
(* whose row has shift NIGHT, timeOut at 02:30 and hours 8.00 (8.50 minus  *)
(* the 30-minute lunch); the next day's row receives no hours from it.     *)

C20_NightShiftEightHours ==
  Reported =>
    \A p \in WorkedPairs : \A i \in 1..6, j \in 2..7 :
      NightShiftRows(p, i, j) =>
        /\ report.rows[i].shift = "NIGHT"
        /\ report.rows[i].timeIn = events[p[1]].serverTimestamp
        /\ report.rows[i].timeOut = events[p[2]].serverTimestamp
        /\ report.rows[i].lunchMinutes = 30
        /\ report.rows[i].hoursMs = 8 * HOUR_MS
        /\ report.rows[j].hoursMs = 0
        /\ report.rows[j].shift = DASH
        /\ report.rows[j].timeIn = NoTime

\* the week of a worker whose only shift ran from 18:00 to 02:30
C20_Witness ==
  /\ Reported
  /\ Len(events) = 2
  /\ \E p \in WorkedPairs : NightShiftRows(p, 1, 2)
  /\ report.totals.hoursMs = 8 * HOUR_MS

-----------------------------------------------------------------------------
(* Signatures and state reads *)

PNG_PREFIX == "data:image/png;base64,"
MAX_SIGNATURE_LENGTH == 300000

\* a signature body: its declared prefix, its length and the picture it carries
SigA == [prefix |-> PNG_PREFIX, length |-> 120, picture |-> "a"]
SigB == [prefix |-> PNG_PREFIX, length |-> MAX_SIGNATURE_LENGTH, picture |-> "b"]
SigJpeg == [prefix |-> "data:image/jpeg;base64,", length |-> 120, picture |-> "a"]
SigHuge == [prefix |-> PNG_PREFIX, length |-> MAX_SIGNATURE_LENGTH + 1, picture |-> "a"]

\* SignatureBody.parse and the two checks of the handler
signatureAccepted(sig) ==
  /\ sig.length >= 1
  /\ sig.prefix = PNG_PREFIX
  /\ ~(sig.length > MAX_SIGNATURE_LENGTH)

\* mutant: any row of the caller can be signed
signatureTargets_AnyType(log, userId, shiftId) ==
  {i \in 1..Len(log) : i = shiftId /\ log[i].userId = userId}

\* updateMany where: { id: shiftId, userId, type: 'CLOCK_OUT', status: 'OK' }
signatureTargets(log, userId, shiftId) ==
  {i \in 1..Len(log) :
     /\ i = shiftId
     /\ log[i].userId = userId
     /\ log[i].type = "CLOCK_OUT"
     /\ log[i].status = "OK"}

\* POST /attendance/:shiftId/signature; new Date() is one millisecond later
\* than anything written before
AttachSignature(userId, shiftId, sig) ==
  /\ Idle
  /\ now' = now + 1
  /\ LET targets == IF signatureAccepted(sig)
                      THEN signatureTargets(events, userId, shiftId) ELSE {}
         status == IF ~signatureAccepted(sig) THEN 400
                   ELSE IF targets = {} THEN 404 ELSE 200
     IN  /\ events' = [i \in 1..Len(events) |->
                         IF i \in targets
                           THEN [events[i] EXCEPT !.signedAt = now + 1,
                                                  !.signaturePngBase64 = sig.picture]
                           ELSE events[i]]
         /\ signature' = [call |-> signature.call + 1, userId |-> userId, shiftId |-> shiftId,
                          sig |-> sig.picture, status |-> status,
                          before |-> IF shiftId \in 1..Len(events) THEN events[shiftId] ELSE NoEvent]
  /\ UNCHANGED <<ticks, tokens, userHits, ipHits, req, limiter, lastHit, agencyHits, reply, report,
                 pdfCache, pdf, answer, wifi, me>>

\* a CLOCK_OUT counts as unsigned while it has neither signedAt nor an image
unsignedOut(e) ==
  e.type = "CLOCK_OUT" /\ e.signedAt = NoTime /\ e.signaturePngBase64 = NoStr

\* signatureRequired and shiftId of GET /staffing/me/state: the last OK row
\* among the rows the handler loaded for userId
signatureOf(log, userId) ==
  LET evs == findManyEvents(log, userId)
      ok == {i \in 1..Len(log) : log[i].userId = userId /\ log[i].status = "OK"
                                  /\ \E j \in 1..Len(evs) : evs[j] = log[i]}
      last == IF ok = {} THEN NoId
              ELSE CHOOSE i \in ok : \A j \in ok :
                     log[j].serverTimestamp <= log[i].serverTimestamp
      signatureRequired == last # NoId /\ unsignedOut(log[last])
  IN  [signatureRequired |-> signatureRequired,
       shiftId |-> IF signatureRequired THEN last ELSE NoId]

\* GET /staffing/me/state
GetMeState(userId, ip) ==
  /\ Idle
  /\ LET base == deriveClockState(findManyEvents(events, userId), now)
         sig == signatureOf(events, userId)
     IN  me' = [userId |-> userId, clockedIn |-> base.clockedIn, onLunch |-> base.onLunch,
                wifiAllowlistStatus |-> WifiStatus(userId, ip),
                signatureRequired |-> sig.signatureRequired,
                shiftId |-> sig.shiftId]
  /\ UNCHANGED <<now, ticks, events, tokens, userHits, ipHits, req, limiter, lastHit, agencyHits, reply,
                 report, signature, pdfCache, pdf, answer, wifi>>

-----------------------------------------------------------------------------
(* SpecSignature: u1 and u2 after a day's work -- in at 08:00 and 08:05,   *)
(* out at 16:30 and 16:35, and a second CLOCK_OUT of u1 refused at 16:40   *)
(* -- signing shifts and reading state and timecard                        *)

SignatureMaxCalls == 2

dayEvent(userId, type, status, reason, t, key, tokenId) ==
  [NoEvent EXCEPT !.deviceId = "d1", !.userId = userId, !.agency = Profile(userId).agency, !.type = type,
                  !.status = status, !.reason = reason, !.verificationMethod = "wifi",
                  !.serverTimestamp = t, !.createdAt = t, !.idempotencyKey = key,
                  !.punchTokenId = tokenId]

InitSignature ==
  /\ now = WEEK0 + 17 * HOUR_MS
  /\ ticks = 0
  /\ events =
       <<dayEvent("u1", "CLOCK_IN", "OK", NoStr, WEEK0 + 8 * HOUR_MS, "s1", 1),
         dayEvent("u2", "CLOCK_IN", "OK", NoStr, WEEK0 + 8 * HOUR_MS + 5 * 60000, "s2", 2),
         dayEvent("u1", "CLOCK_OUT", "OK", NoStr, WEEK0 + 16 * HOUR_MS + 30 * 60000, "s3", 1),
         dayEvent("u2", "CLOCK_OUT", "OK", NoStr, WEEK0 + 16 * HOUR_MS + 35 * 60000, "s4", 2),
         dayEvent("u1", "CLOCK_OUT", "BLOCKED", "INVALID_STATE",
                  WEEK0 + 16 * HOUR_MS + 40 * 60000, "s5", 1)>>
  /\ tokens =
       <<[issuedToken(1, "u1", "d1", "uaA", WEEK0 + 7 * HOUR_MS) EXCEPT
            !.lastSeenAt = WEEK0 + 16 * HOUR_MS + 40 * 60000],
         [issuedToken(2, "u2", "d1", "uaA", WEEK0 + 7 * HOUR_MS) EXCEPT
            !.lastSeenAt = WEEK0 + 16 * HOUR_MS + 35 * 60000]>>
  /\ userHits = [u \in Users |->
       CASE u = "u1" -> <<WEEK0 + 16 * HOUR_MS + 40 * 60000>>
         [] u = "u2" -> <<WEEK0 + 16 * HOUR_MS + 35 * 60000>>
         [] OTHER -> <<>>]
  /\ ipHits = [k \in IpKeys |-> IF k = "ipA" THEN <<WEEK0 + 16 * HOUR_MS + 40 * 60000>> ELSE <<>>]
  /\ req = [s \in Slots |-> IdleReq]
  /\ SideInit

\* caller, shiftId and body of the signature calls: the shift of u1 with
\* every kind of body, the CLOCK_IN and the refused CLOCK_OUT of u1, the
\* shift of u2 by u1 and by u2, a shift that does not exist
SignatureCalls ==
  {<<"u1", 3, SigA>>, <<"u1", 3, SigB>>, <<"u1", 3, SigJpeg>>, <<"u1", 3, SigHuge>>,
   <<"u1", 1, SigA>>, <<"u1", 5, SigA>>, <<"u1", 4, SigA>>, <<"u2", 4, SigB>>,
   <<"u1", 9, SigA>>}

SignatureRequests ==
  /\ signature.call < SignatureMaxCalls
  /\ \E c \in SignatureCalls : AttachSignature(c[1], c[2], c[3])

\* the timecard of the week, asked for at most as often as signatures are sent
SignatureReports ==
  /\ report.call < SignatureMaxCalls
  /\ MyTimes("u1", WEEK0, WEEK0 + 7 * DAY_MS)

NextSignature ==
  \/ SignatureRequests
  \/ GetMeState("u1", "ipA")
  \/ SignatureReports

SpecSignature == InitSignature /\ [][NextSignature]_vars

-----------------------------------------------------------------------------
(* SpecAppend: the same evening with every operation that can reach the    *)
(* log: u1 signs, reads state and timecard, punches in again and renews    *)
(* the token                                                               *)

AppendMaxCalls == 1
AppendMaxEvents == 1
AppendMaxTokens == 3

AppendPunchConf ==
  [users |-> {"u1"}, types |-> {"CLOCK_IN"}, ips |-> {"ipA"}, geos |-> {NoGeo},
   devices |-> {"d1"}, keys |-> {"k1"}, clientTimes |-> {NoTime}, rawTokens |-> {1},
   userAgents |-> {"uaA"}, maxEvents |-> AppendMaxEvents]

AppendIssueConf ==
  [users |-> {"u1"}, devices |-> {"d1"}, userAgents |-> {"uaA"},
   maxTokens |-> AppendMaxTokens]

AppendSignatureRequests ==
  /\ signature.call < AppendMaxCalls
  /\ \E c \in {<<"u1", 3, SigA>>, <<"u1", 1, SigA>>, <<"u1", 4, SigB>>} :
       AttachSignature(c[1], c[2], c[3])

AppendReports ==
  /\ report.call < AppendMaxCalls
  /\ MyTimes("u1", WEEK0, WEEK0 + 7 * DAY_MS)

NextAppend ==
  \/ AppendSignatureRequests
  \/ GetMeState("u1", "ipA")
  \/ AppendReports
  \/ PunchSteps(1, AppendPunchConf)
  \/ IssueSteps(1, AppendIssueConf)
  \/ Return(1)

SpecAppend == InitSignature /\ [][NextAppend]_vars

\* the loaded events of the report's user are one CLOCK_IN at 08:00 and one
\* CLOCK_OUT at 16:30 of the same day, both verified by the network alone;
\* d is the day, o the position of the CLOCK_OUT
DayShift(d, o) ==
  /\ o \in Loaded
  /\ \E c \in Loaded :
       /\ Loaded = {c, o}
       /\ events[c].type = "CLOCK_IN" /\ events[o].type = "CLOCK_OUT"
       /\ events[c].serverTimestamp = d * 24 * HOUR_MS + 8 * HOUR_MS
       /\ events[o].serverTimestamp = d * 24 * HOUR_MS + 16 * HOUR_MS + 30 * 60000
       /\ events[c].verificationMethod = "wifi" /\ events[o].verificationMethod = "wifi"

Signed(e) == e.signedAt # NoTime \/ e.signaturePngBase64 # NoStr

DayShiftRow ==
  Reported =>
    \A i \in 1..Len(report.rows) : \A o \in 1..Len(events) :
      DayShift(report.rows[i].date, o) =>
        /\ report.rows[i].shift = "DAY"
        /\ report.rows[i].hoursMs = 8 * HOUR_MS
        /\ report.rows[i].verifiedVia = <<"Wi-Fi">>
        /\ report.rows[i].signed = (IF Signed(events[o]) THEN "true" ELSE "false")

-----------------------------------------------------------------------------
(* C21: for a single segment from 08:00 to 16:30 of one day, both events   *)
(* verified by the network channel only, every timecard produced shows the *)
(* day with shift DAY, hours 8.00 and verifiedVia Wi-Fi, and with signed   *)
(* false while the CLOCK_OUT event carries no signature, true once it does.*)

C21_DayShiftRow == [][report' # report => DayShiftRow']_vars

\* the timecard read after the shift was signed, the one before having said unsigned
C21_Witness ==
  /\ Reported
  /\ \E o \in 1..Len(events) : DayShift(report.rows[1].date, o) /\ Signed(events[o])
  /\ report.rows[1].signed = "true"
  /\ report.rows[1].hoursMs = 8 * HOUR_MS
  /\ signature.call = 1

-----------------------------------------------------------------------------
(* C22: attachSignature succeeds only on an OK CLOCK_OUT event of the      *)
(* caller that has no signature yet; a call on a signed event, on a        *)
(* non-CLOCK_OUT or BLOCKED event or on another user's event is rejected   *)
(* and leaves signedAt and the signature image unchanged.                  *)

C22_SignedOnce ==
  signature.call > 0 =>
    LET b == signature.before
        allowed == /\ b.userId = signature.userId
                   /\ b.type = "CLOCK_OUT"
                   /\ b.status = "OK"
                   /\ ~Signed(b)
    IN  /\ signature.status = 200 => allowed
        /\ (~allowed /\ signature.shiftId \in 1..Len(events)) =>
             /\ signature.status # 200
             /\ events[signature.shiftId].signedAt = b.signedAt
             /\ events[signature.shiftId].signaturePngBase64 = b.signaturePngBase64

-----------------------------------------------------------------------------
(* C23: the event log is append-only: no punch, token issuance, state      *)
(* read, weekly reconstruction or signature submission deletes an event or *)
(* changes any field of it other than signedAt and the signature image of  *)
(* a CLOCK_OUT row; attachSignature leaves type and serverTimestamp alone. *)

C23_AppendOnly ==
  [][/\ Len(events') >= Len(events)
     /\ \A i \in 1..Len(events) :
          /\ [events'[i] EXCEPT !.signedAt = NoTime, !.signaturePngBase64 = NoStr] =
               [events[i] EXCEPT !.signedAt = NoTime, !.signaturePngBase64 = NoStr]
          /\ events'[i] # events[i] => events[i].type = "CLOCK_OUT"]_vars

\* a shift has been signed, the log has grown since, and a timecard and the state were read
C23_Witness ==
  /\ Len(events) = 6
  /\ events[3].signedAt # NoTime
  /\ events[3].type = "CLOCK_OUT"
  /\ events[3].serverTimestamp = WEEK0 + 16 * HOUR_MS + 30 * 60000
  /\ Reported
  /\ me.userId = "u1"
  /\ Len(tokens) = 3

-----------------------------------------------------------------------------
(* SpecEligible: punches of u1 (eligible), u3 (inactive), u4 (employment   *)
(* type W2) and u5 (no profile), one at a time                             *)

EligibleMaxEvents == 2

EligibleConf ==
  [users |-> {"u1", "u3", "u4", "u5"}, types |-> {"CLOCK_IN", "CLOCK_OUT"}, ips |-> {"ipA"},
   geos |-> {NoGeo}, devices |-> {"d1"}, keys |-> {"k1", "k2"}, clientTimes |-> {NoTime},
   rawTokens |-> {NoId, 1}, userAgents |-> {"uaA"}, maxEvents |-> EligibleMaxEvents]

InitEligible == InitAfter(0, OneToken)

NextEligible ==
  \/ PunchSteps(1, EligibleConf)
  \/ Return(1)

SpecEligible == InitEligible /\ [][NextEligible]_vars

\* the profile of the caller is missing, inactive, or of no recognized employment type
Unauthorized(u) ==
  \/ ~Profile(u).exists
  \/ ~Profile(u).isActive
  \/ Profile(u).employmentType \notin {"LTC", "STC"}

-----------------------------------------------------------------------------
(* C24: a punch of a user whose profile is missing, inactive or of an      *)
(* unrecognized employment type is refused (403) in the step that receives *)
(* it, and neither that step nor any later one on its behalf appends an    *)
(* event, records a limiter hit or modifies a token record.                *)

C24_IneligibleNoTrace ==
  [][\A s \in Slots :
       (req'[s].kind = "punch" /\ Unauthorized(req'[s].in.userId)) =>
         /\ req'[s].pc = "done"
         /\ req'[s].response = "FORBIDDEN"
         /\ events' = events
         /\ userHits' = userHits
         /\ ipHits' = ipHits
         /\ tokens' = tokens]_vars

\* a user with employment type W2 has been refused after u1 had clocked in
C24_Witness ==
  /\ req[1].kind = "punch"
  /\ req[1].in.userId = "u4"
  /\ req[1].response = "FORBIDDEN"
  /\ \E i \in 1..Len(events) : events[i].status = "OK"
  /\ \A i \in 1..Len(events) : events[i].userId = "u1"

-----------------------------------------------------------------------------
(* SpecLunch: u1 on lunch since 00:00:00.002; state reads and punches just *)
(* before and at the thirtieth minute of the lunch                         *)

LunchMaxEvents == 1
LunchMaxTicks == 1

LunchConf ==
  [users |-> {"u1"}, types |-> EventTypes, ips |-> {"ipA"}, geos |-> {NoGeo},
   devices |-> {"d1"}, keys |-> {"k1", "k2"}, clientTimes |-> {NoTime}, rawTokens |-> {1},
   userAgents |-> {"uaA"}, jumps |-> {LUNCH_MS - 2, LUNCH_MS - 1},
   maxEvents |-> LunchMaxEvents, maxTicks |-> LunchMaxTicks]

\* the state after an issuance for (u1, d1) at time 0, an accepted CLOCK_IN
\* at time 1 and an accepted LUNCH_START at time 2
InitOnLunch ==
  /\ now = 2
  /\ ticks = 0
  /\ events = <<okEvent("CLOCK_IN", 1, "k0"), okEvent("LUNCH_START", 2, "k9")>>
  /\ tokens = <<[issuedToken(1, "u1", "d1", "uaA", 0) EXCEPT !.lastSeenAt = 2]>>
  /\ userHits = [u \in Users |-> IF u = "u1" THEN <<1, 2>> ELSE <<>>]
  /\ ipHits = [k \in IpKeys |-> IF k = "ipA" THEN <<1, 2>> ELSE <<>>]
  /\ req = [s \in Slots |-> IdleReq]
  /\ SideInit

LunchReads == GetMeState("u1", "ipA")

NextLunch ==
  \/ PunchSteps(1, LunchConf)
  \/ Return(1)
  \/ Ticks(LunchConf)
  \/ LunchReads

SpecLunch == InitOnLunch /\ [][NextLunch]_vars

\* the OK events of userId in log, oldest first
OKOf(log, userId) ==
  SortSeq(SelectSeq(log, LAMBDA e : e.userId = userId /\ e.status = "OK"), byServerTimestamp)

\* the latest OK event of userId in log is a LUNCH_START: a lunch is running
LunchRunning(log, userId) ==
  LET ok == OKOf(log, userId)
  IN  Len(ok) > 0 /\ ok[Len(ok)].type = "LUNCH_START"

\* time elapsed at t since that LUNCH_START
LunchElapsed(log, userId, t) ==
  LET ok == OKOf(log, userId)
  IN  t - ok[Len(ok)].serverTimestamp

\* a state read of a worker whose lunch is running: ON_LUNCH before the
\* thirtieth minute, IN from then on
LapseRead ==
  LunchRunning(events, me.userId) =>
    /\ me.clockedIn
    /\ me.onLunch = (LunchElapsed(events, me.userId, now) < LUNCH_MS)

\* a punch of a worker whose lunch is running, all other gates passing
LapsePunch(s) ==
  LET before == LogBefore(req[s].attempt)
      u == req[s].in.userId
      ty == req[s].in.type
      lapsed == LunchElapsed(before, u, req[s].serverNow) >= LUNCH_MS
  IN  (Sequenced(s) /\ LunchRunning(before, u)) =>
        /\ ClockBefore(s) = (IF lapsed THEN "IN" ELSE "ON_LUNCH")
        /\ (lapsed /\ ty \in {"LUNCH_START", "CLOCK_OUT"}) => req[s].response = "OK"
        /\ (lapsed /\ ty = "LUNCH_END") => req[s].response = "INVALID_STATE"
        /\ (~lapsed /\ ty = "LUNCH_END") => req[s].response = "OK"
        /\ (~lapsed /\ ty = "LUNCH_START") => req[s].response = "INVALID_STATE"
        /\ \A i \in OwnEvents(req[s].attempt) :
             events[i].status = (IF req[s].response = "OK" THEN "OK" ELSE "BLOCKED")

-----------------------------------------------------------------------------
(* C25: ON_LUNCH lapses lazily.  Once 30 minutes or more have passed since *)
(* the latest OK LUNCH_START with nothing after it, a state read says IN   *)
(* and writes no event, and the next punch is judged against IN:           *)
(* LUNCH_START and CLOCK_OUT are accepted, LUNCH_END gets INVALID_STATE.   *)
(* Before 30 minutes the state is ON_LUNCH.                                *)

C25_LunchLapses ==
  [][/\ me' # me => (LapseRead' /\ events' = events)
     /\ \A s \in Slots : LapsePunch(s)']_vars

\* exactly 30 minutes after the LUNCH_START a LUNCH_END has been rejected and
\* the state read after it says IN
C25_Witness ==
  /\ Len(events) = 3
  /\ events[3].type = "LUNCH_END"
  /\ events[3].serverTimestamp = 2 + LUNCH_MS
  /\ events[3].status = "BLOCKED" /\ events[3].reason = "INVALID_STATE"
  /\ Idle
  /\ me.userId = "u1" /\ me.clockedIn /\ ~me.onLunch

-----------------------------------------------------------------------------
(* C26: only a punch persisted with status OK modifies a punch-token       *)
(* record, stamping lastSeenAt of the token it consumed; a punch that ends *)
(* BLOCKED, at the sequencing gate too, leaves every token record as it    *)
(* was.  Stated on the records: when no punch is under way, lastSeenAt of  *)
(* a token is unset, as at issuance, or the serverTimestamp of an OK       *)
(* event that consumed it.                                                 *)

StampedByOK(k) ==
  \/ tokens[k].lastSeenAt = NoTime
  \/ \E i \in 1..Len(events) :
       /\ events[i].status = "OK"
       /\ events[i].punchTokenId = k
       /\ events[i].serverTimestamp = tokens[k].lastSeenAt

C26_OnlyOKStamps ==
  InFlight("punch") = 0 => \A k \in 1..Len(tokens) : StampedByOK(k)

-----------------------------------------------------------------------------
(* SpecWifi: the network-presence channel as a function of the environment *)
(* (override flag, allowlist, bypass list), the caller and the address     *)

WifiEnvs ==
  [disabled : BOOLEAN, allow : {{}, {"ipA"}, {"ipA", "ipB"}},
   bypass : {{}, {"u2"}, {"mail3"}, {"u2", "mail3"}}]

\* (userId, email) of the sessions
WifiCallers == {<<"u1", "mail1">>, <<"u2", NoStr>>, <<"u3", "mail3">>}

WifiAddresses == {NoStr, "ipA", "ipB", "ipC"}

\* wifiRaw and wifi as POST /staffing/events, /staffing/punch-token and
\* GET /staffing/me/state compute them
EvalWifi(env, userId, email, ip) ==
  /\ wifi' = [call |-> 1, env |-> env, userId |-> userId, email |-> email, ip |-> ip,
              raw |-> evalWifiAllowlistIn(env, ip),
              status |-> wifiStatusIn(env, userId, email, ip)]
  /\ UNCHANGED <<now, ticks, events, tokens, userHits, ipHits, req, limiter, lastHit, agencyHits,
                 reply, report, signature, pdfCache, pdf, answer, me>>

InitWifi == InitAfter(0, OneToken)

NextWifi == \E env \in WifiEnvs, c \in WifiCallers, ip \in WifiAddresses : EvalWifi(env, c[1], c[2], ip)

SpecWifi == InitWifi /\ [][NextWifi]_vars

\* the caller of the recorded evaluation is on the bypass list, by id or by email
Listed ==
  \/ wifi.userId \in wifi.env.bypass
  \/ wifi.email # NoStr /\ wifi.email \in wifi.env.bypass

\* what the claim says the channel returns
ChannelOutcome ==
  IF wifi.env.disabled THEN "DEV_BYPASS"
  ELSE IF wifi.env.allow = {} \/ wifi.ip = NoStr \/ wifi.ip \notin wifi.env.allow THEN "FAIL"
  ELSE "PASS"

-----------------------------------------------------------------------------
(* C27: the network-presence channel returns DEV_BYPASS whenever the       *)
(* override flag is set; otherwise FAIL when the allowlist is empty or the *)
(* address is unknown or not listed, PASS only when the address is listed. *)
(* The bypass list turns a FAIL into DEV_BYPASS for listed users only; it  *)
(* never changes a PASS and never affects a user who is not on it.         *)

C27_WifiChannel ==
  wifi.call > 0 =>
    /\ wifi.raw = ChannelOutcome
    /\ (wifi.raw = "FAIL" /\ Listed) => wifi.status = "DEV_BYPASS"
    /\ wifi.raw = "PASS" => wifi.status = "PASS"
    /\ ~Listed => wifi.status = wifi.raw
    /\ wifi.status = "PASS" => (~wifi.env.disabled /\ wifi.ip # NoStr /\ wifi.ip \in wifi.env.allow)

\* with an empty allowlist and no override, u2 on the bypass list got DEV_BYPASS
\* for an address that alone fails
C27_Witness ==
  /\ wifi.call > 0
  /\ ~wifi.env.disabled /\ wifi.env.allow = {} /\ wifi.env.bypass = {"u2"}
  /\ wifi.userId = "u2" /\ wifi.ip = "ipA"
  /\ wifi.raw = "FAIL" /\ wifi.status = "DEV_BYPASS"

-----------------------------------------------------------------------------
(* SpecPairing: the pairing loop over every sequence of OK events of u1,   *)
(* one an hour from 08:00 on, whatever their types (rows a log can hold    *)
(* once two punches of one worker have raced), read over windows that hold *)
(* all of it or only its first two hours                                   *)

PairMaxLen == 4

\* the k-th event of such a log
hourEvent(k, type) ==
  [NoEvent EXCEPT !.deviceId = "d1", !.userId = "u1", !.agency = Profile("u1").agency, !.type = type,
                  !.status = "OK", !.verificationMethod = "wifi",
                  !.serverTimestamp = WEEK0 + (7 + k) * HOUR_MS, !.createdAt = WEEK0 + (7 + k) * HOUR_MS,
                  !.idempotencyKey = <<"h", k>>, !.punchTokenId = 1]

InitPairing ==
  /\ now = WEEK0 + 2 * DAY_MS
  /\ ticks = 0
  /\ \E n \in 0..PairMaxLen : \E ty \in [1..n -> EventTypes] :
       /\ events = [k \in 1..n |-> hourEvent(k, ty[k])]
       /\ tokens = <<[issuedToken(1, "u1", "d1", "uaA", WEEK0 + 7 * HOUR_MS) EXCEPT
                        !.lastSeenAt = IF n = 0 THEN NoTime ELSE WEEK0 + (7 + n) * HOUR_MS]>>
       /\ userHits = [u \in Users |-> IF u = "u1" /\ n > 0 THEN <<WEEK0 + (7 + n) * HOUR_MS>> ELSE <<>>]
       /\ ipHits = [k \in IpKeys |-> IF k = "ipA" /\ n > 0 THEN <<WEEK0 + (7 + n) * HOUR_MS>> ELSE <<>>]
  /\ req = [s \in Slots |-> IdleReq]
  /\ SideInit

\* the week of the log, and the 22 hours that end two hours before it: with
\* the 12 hour margin the second loads what was punched before 10:00
PairingRequests ==
  /\ report.call < 1
  /\ \/ MyTimes("u1", WEEK0, WEEK0 + 7 * DAY_MS)
     \/ MyTimes("u1", WEEK0 - DAY_MS, WEEK0 - 2 * HOUR_MS)

NextPairing == PairingRequests

SpecPairing == InitPairing /\ [][NextPairing]_vars

\* the segments of the report as (clock-in, clock-out) instants
SegmentSpans == {<<report.segments[i].clockInAt, report.segments[i].clockOutAt>> : i \in 1..Len(report.segments)}

\* the loaded CLOCK_IN events that no loaded CLOCK_OUT follows before the next CLOCK_IN
Unterminated == {i \in Loaded : events[i].type = "CLOCK_IN" /\ \A p \in WorkedPairs : p[1] # i}

-----------------------------------------------------------------------------
(* C28: in the weekly reconstruction every segment pairs one CLOCK_IN with *)
(* the first CLOCK_OUT after it, and every such pair is a segment.  A      *)
(* CLOCK_IN with no CLOCK_OUT before the next CLOCK_IN or the end of the   *)
(* loaded window gives no segment and no hours, a CLOCK_OUT with no open   *)
(* CLOCK_IN is ignored, LUNCH events neither open nor close a segment.     *)

C28_SegmentPairing ==
  Reported =>
    /\ SegmentSpans = {<<events[p[1]].serverTimestamp, events[p[2]].serverTimestamp>> : p \in WorkedPairs}
    /\ Len(report.segments) = Cardinality(WorkedPairs)
    /\ \A i \in 1..Len(report.segments) :
         report.segments[i].ms = report.segments[i].clockOutAt - report.segments[i].clockInAt
    /\ \A i \in Unterminated : \A g \in SegmentSpans : g[1] # events[i].serverTimestamp
    /\ \A i \in Loaded : events[i].type \in {"LUNCH_START", "LUNCH_END"} =>
         \A g \in SegmentSpans : g[1] # events[i].serverTimestamp /\ g[2] # events[i].serverTimestamp
    /\ WorkedPairs = {} => report.totals.hoursMs = 0
    /\ \A i \in 1..Len(report.rows) :
         PairsOn(report.rows[i].date) = {} => report.rows[i].hoursMs = 0

\* CLOCK_IN, CLOCK_IN, CLOCK_OUT, CLOCK_OUT: one segment, from the second
\* CLOCK_IN to the first CLOCK_OUT
C28_Witness ==
  /\ Reported
  /\ Len(events) = 4
  /\ events[1].type = "CLOCK_IN" /\ events[2].type = "CLOCK_IN"
  /\ events[3].type = "CLOCK_OUT" /\ events[4].type = "CLOCK_OUT"
  /\ Len(report.segments) = 1
  /\ report.segments[1].clockInAt = events[2].serverTimestamp
  /\ report.segments[1].clockOutAt = events[3].serverTimestamp
  /\ report.totals.hoursMs = HOUR_MS - LUNCH_DEDUCTION_MS

-----------------------------------------------------------------------------
(* SpecLabel: one day of u1, a shift with a lunch or two short shifts, cut *)
(* after any number of events, each event verified by any method           *)

LabelMaxLen == 4

VerificationMethods == {"wifi", "location", "both", "none"}

\* the types of the events of the day, in order
LabelShapes ==
  {<<"CLOCK_IN", "LUNCH_START", "LUNCH_END", "CLOCK_OUT", "CLOCK_IN", "CLOCK_OUT">>,
   <<"CLOCK_IN", "CLOCK_OUT", "CLOCK_IN", "CLOCK_OUT", "CLOCK_IN", "CLOCK_OUT">>}

InitLabel ==
  /\ now = WEEK0 + 2 * DAY_MS
  /\ ticks = 0
  /\ \E n \in 0..LabelMaxLen : \E shape \in LabelShapes : \E m \in [1..n -> VerificationMethods] :
       /\ events = [k \in 1..n |-> [hourEvent(k, shape[k]) EXCEPT !.verificationMethod = m[k]]]
       /\ tokens = <<[issuedToken(1, "u1", "d1", "uaA", WEEK0 + 7 * HOUR_MS) EXCEPT
                        !.lastSeenAt = IF n = 0 THEN NoTime ELSE WEEK0 + (7 + n) * HOUR_MS]>>
       /\ userHits = [u \in Users |-> IF u = "u1" /\ n > 0 THEN <<WEEK0 + (7 + n) * HOUR_MS>> ELSE <<>>]
       /\ ipHits = [k \in IpKeys |-> IF k = "ipA" /\ n > 0 THEN <<WEEK0 + (7 + n) * HOUR_MS>> ELSE <<>>]
  /\ req = [s \in Slots |-> IdleReq]
  /\ SideInit

LabelRequests ==
  /\ report.call < 1
  /\ MyTimes("u1", WEEK0, WEEK0 + 7 * DAY_MS)

NextLabel == LabelRequests

SpecLabel == InitLabel /\ [][NextLabel]_vars

\* the loaded events inside the segments clocked in on day d that carry a method
VerifiedOn(d) ==
  {k \in Loaded :
     /\ events[k].verificationMethod # "none"
     /\ \E p \in PairsOn(d) :
          /\ events[p[1]].serverTimestamp <= events[k].serverTimestamp
          /\ events[k].serverTimestamp <= events[p[2]].serverTimestamp}

MethodName(k) ==
  CASE events[k].verificationMethod = "wifi" -> "Wi-Fi"
    [] events[k].verificationMethod = "location" -> "Location"
    [] events[k].verificationMethod = "both" -> "Wi-Fi + Location"

Earliest(S) == CHOOSE k \in S : \A j \in S : events[k].serverTimestamp <= events[j].serverTimestamp

Latest(S) == CHOOSE k \in S : \A j \in S : events[k].serverTimestamp >= events[j].serverTimestamp

-----------------------------------------------------------------------------
(* C29: the verification label of a day comes from the methods of the      *)
(* events of its segments, 'none' left out: the name of the method when    *)
(* one distinct method appears, a transition from the day's first method   *)
(* to its last when more than one appears, the dash on a day without work. *)

C29_VerificationLabel ==
  Reported =>
    \A i \in 1..Len(report.rows) :
      LET d == report.rows[i].date
          S == VerifiedOn(d)
          names == {MethodName(k) : k \in S}
          label == report.rows[i].verifiedVia
      IN  /\ PairsOn(d) = {} => label = <<DASH>>
          /\ Cardinality(names) = 1 => label = <<MethodName(Earliest(S))>>
          /\ Cardinality(names) > 1 => label = <<MethodName(Earliest(S)), MethodName(Latest(S))>>

\* in by Wi-Fi, lunch from an unverified and then a located event, out by both
C29_Witness ==
  /\ Reported
  /\ Len(events) = 4
  /\ events[1].verificationMethod = "wifi" /\ events[2].verificationMethod = "none"
  /\ events[3].verificationMethod = "location" /\ events[4].verificationMethod = "both"
  /\ events[2].type = "LUNCH_START"
  /\ report.rows[1].verifiedVia = <<"Wi-Fi", "Wi-Fi + Location">>

-----------------------------------------------------------------------------
(* The PDF cache of the agency API (app.ts).  pdfCache is the Map in       *)
(* insertion order; the bytes of a PDF are what is drawn on it.            *)

PDF_TEMPLATE_VERSION == "v1"
PDF_CACHE_TTL_MS == 30 * 60000

prunePdfCache(cache, t) == SelectSeq(cache, LAMBDA v : v.expiresAt > t)

\* mutant: the cache key leaves the agency out
pdfCacheKey_NoAgency(agency, userId, from, to) == <<"any", userId, from, to, PDF_TEMPLATE_VERSION>>

\* siteId is not given by the requests of the model
pdfCacheKey(agency, userId, from, to) == <<agency, "any", userId, from, to, PDF_TEMPLATE_VERSION>>

pdfCacheHas(cache, key) == \E i \in 1..Len(cache) : cache[i].key = key

pdfCacheGet(cache, key) == cache[CHOOSE i \in 1..Len(cache) : cache[i].key = key]

\* Map.set: a present key keeps its place
pdfCacheSet(cache, key, entry) ==
  IF pdfCacheHas(cache, key)
    THEN [i \in 1..Len(cache) |-> IF cache[i].key = key THEN entry ELSE cache[i]]
    ELSE Append(cache, entry)

\* the page drawn from rows and totals
pdfBytes(agency, userId, from, built) ==
  [agency |-> agency, userId |-> userId, from |-> from, rows |-> built.rows, totals |-> built.totals]

\* GET /timecard/pdf up to its first await: rate limit, prune, lookup; a hit
\* is answered at once, a miss goes on to build the rows
PdfLookup(s, keyId, ip, userId, from, to) ==
  /\ pdf.pending[s].pc = "idle"
  /\ enforceAgencyRateLimit(keyId, ip, "timecard/pdf")
  /\ LET agency == AgencyOfKey(keyId)
         cacheKey == pdfCacheKey(agency, userId, from, to)
         pruned == prunePdfCache(pdfCache, now)
         seq == reply.call + 1
     IN  IF ~agencyAllowed(keyId, ip, "timecard/pdf")
           THEN UNCHANGED <<pdfCache, pdf>>
         ELSE IF pdfCacheHas(pruned, cacheKey) /\ pdfCacheGet(pruned, cacheKey).expiresAt > now
           THEN /\ pdfCache' = pruned
                /\ pdf' = [pdf EXCEPT !.served =
                     Append(@, [seq |-> seq, agency |-> agency, cacheKey |-> cacheKey, at |-> now, xCache |-> "HIT",
                                bytes |-> pdfCacheGet(pruned, cacheKey).bytes])]
         ELSE /\ pdfCache' = pruned
              /\ pdf' = [pdf EXCEPT !.pending[s] =
                   [pc |-> "build", seq |-> seq, cacheKey |-> cacheKey, now |-> now, agency |-> agency,
                    userId |-> userId, from |-> from, to |-> to, bytes |-> <<>>]]
  /\ UNCHANGED report

\* await buildDailyRows(...) resolves; the page is drawn
PdfBuild(s) ==
  /\ pdf.pending[s].pc = "build"
  /\ LET r == pdf.pending[s]
         built == buildDailyRows(events, r.agency, r.userId, r.from, r.to)
     IN  pdf' = [pdf EXCEPT !.pending[s] =
                   [r EXCEPT !.pc = "save", !.bytes = pdfBytes(r.agency, r.userId, r.from, built)]]
  /\ UNCHANGED <<now, ticks, events, tokens, userHits, ipHits, req, limiter, lastHit, agencyHits,
                 reply, report, signature, pdfCache, answer, wifi, me>>

\* await pdf.save() resolves: pdfCache.set with the now of the lookup, answer
PdfSave(s) ==
  /\ pdf.pending[s].pc = "save"
  /\ LET r == pdf.pending[s]
     IN  /\ pdfCache' = pdfCacheSet(pdfCache, r.cacheKey,
                          [key |-> r.cacheKey, bytes |-> r.bytes, expiresAt |-> r.now + PDF_CACHE_TTL_MS])
         /\ pdf' = [pending |-> [pdf.pending EXCEPT ![s] = NoPending],
                    served |-> Append(pdf.served,
                      [seq |-> r.seq, agency |-> r.agency, cacheKey |-> r.cacheKey, at |-> r.now,
                       xCache |-> "MISS",
                       bytes |-> r.bytes])]
  /\ UNCHANGED <<now, ticks, events, tokens, userHits, ipHits, req, limiter, lastHit, agencyHits,
                 reply, report, signature, answer, wifi, me>>

-----------------------------------------------------------------------------
(* SpecPdf: the agency of u1 asks for the PDF of u1's week, twice at once  *)
(* or half an hour apart, while u1 signs the day's clock-out               *)

PdfMaxCalls == 3
PdfMaxTicks == 2

PdfRequests ==
  /\ reply.call < PdfMaxCalls
  /\ \E s \in PdfSlots : PdfLookup(s, "keyP", "ipX", "u1", WEEK0, WEEK0 + 7 * DAY_MS)
  /\ UNCHANGED answer

PdfWork == \E s \in PdfSlots : PdfBuild(s) \/ PdfSave(s)

PdfSignature ==
  /\ signature.call < 1
  /\ AttachSignature("u1", 3, SigA)

PdfTicks ==
  /\ ticks < PdfMaxTicks
  /\ \E d \in {PDF_CACHE_TTL_MS - 1, 1} : Tick(d)

NextPdf ==
  \/ PdfRequests
  \/ PdfWork
  \/ PdfSignature
  \/ PdfTicks

SpecPdf == InitSignature /\ [][NextPdf]_vars

\* answers i and j are for the same cache key and j arrived after i
LaterSameKey(i, j) ==
  /\ pdf.served[i].cacheKey = pdf.served[j].cacheKey
  /\ pdf.served[j].seq > pdf.served[i].seq

-----------------------------------------------------------------------------
(* C30: among the /timecard/pdf requests that pass the rate limit and      *)
(* share agency, site, user and range, a request that arrives less than 30 *)
(* minutes after a MISS is answered HIT with the bytes of that MISS, and a *)
(* HIT is always less than 30 minutes after a MISS before it (so a request *)
(* 30 minutes or more after the MISS misses again, whatever was hit in     *)
(* between).                                                               *)

C30_CacheWindow ==
  \A j \in 1..Len(pdf.served) :
    /\ \A i \in 1..Len(pdf.served) :
         (/\ LaterSameKey(i, j)
          /\ pdf.served[i].xCache = "MISS"
          /\ pdf.served[j].at - pdf.served[i].at < PDF_CACHE_TTL_MS)
         => /\ pdf.served[j].xCache = "HIT"
            /\ pdf.served[j].bytes = pdf.served[i].bytes
    /\ pdf.served[j].xCache = "HIT" =>
         \E i \in 1..Len(pdf.served) :
           /\ LaterSameKey(i, j)
           /\ pdf.served[i].xCache = "MISS"
           /\ pdf.served[j].at - pdf.served[i].at < PDF_CACHE_TTL_MS

(* What does hold: when no request arrives while another is generating the *)
(* PDF, the window is as C30 says.                                         *)

PdfSerialRequests ==
  /\ \A s \in PdfSlots : pdf.pending[s].pc = "idle"
  /\ PdfRequests

NextPdfSerial ==
  \/ PdfSerialRequests
  \/ PdfWork
  \/ PdfSignature
  \/ PdfTicks

SpecPdfSerial == InitSignature /\ [][NextPdfSerial]_vars

C30_SerialWindow == C30_CacheWindow

\* a hit one millisecond before the entry expires, with the unsigned page
\* although the clock-out was signed in between
C30_SerialWitness ==
  /\ Len(pdf.served) >= 2
  /\ pdf.served[2].xCache = "HIT"
  /\ pdf.served[2].at - pdf.served[1].at = PDF_CACHE_TTL_MS - 1
  /\ events[3].signedAt # NoTime
  /\ pdf.served[2].bytes.rows[1].signed = "false"

\* half an hour to the millisecond after the MISS the request misses again
C30_SerialExpiry ==
  /\ Len(pdf.served) >= 2
  /\ pdf.served[1].xCache = "MISS"
  /\ pdf.served[2].xCache = "MISS"
  /\ pdf.served[2].at - pdf.served[1].at = PDF_CACHE_TTL_MS

-----------------------------------------------------------------------------
(* The agency API behind its API keys (app.ts): authentication in the      *)
(* preHandler hook, then the routes.                                       *)

\* hashKeyId(token), one key id per token
hashKeyId(token) == IF token = "tokP" THEN "keyP" ELSE "keyS"

NoMatch == [ok |-> FALSE, agency |-> NoStr, keyId |-> NoStr]

\* requireAgencyApiKey: token is what follows `Bearer `, "" when there is none
requireAgencyApiKey(keys, token) ==
  IF token = NoStr THEN NoMatch
  ELSE IF keys.PROLOGISTIX # NoStr /\ token = keys.PROLOGISTIX
    THEN [ok |-> TRUE, agency |-> "PROLOGISTIX", keyId |-> hashKeyId(token)]
  ELSE IF keys.STAFF_FORCE # NoStr /\ token = keys.STAFF_FORCE
    THEN [ok |-> TRUE, agency |-> "STAFF_FORCE", keyId |-> hashKeyId(token)]
  ELSE NoMatch

\* findMany({ where: { agency, serverTimestamp: { gte: from, lt: to }, userId?, status? } }),
\* oldest first; userId and status are NoStr when the query has none
agencyRecords(log, agency, from, to, userId, status) ==
  SortSeq(SelectSeq(log, LAMBDA e :
            /\ e.agency = agency
            /\ e.serverTimestamp >= from /\ e.serverTimestamp < to
            /\ userId # NoStr => e.userId = userId
            /\ status # NoStr => e.status = status),
          byServerTimestamp)

\* one turn of the session loop of /weekly-summary
summaryStep(st, e) ==
  LET t == e.serverTimestamp
  IN  IF e.type = "CLOCK_IN"
        THEN [st EXCEPT !.openIn = t, !.days = @ \cup {dayKeyUTC(t)}, !.lunchStart = NoTime]
      ELSE IF e.type = "LUNCH_START" /\ st.openIn # NoTime
        THEN [st EXCEPT !.lunchStart = t]
      ELSE IF e.type = "LUNCH_END" /\ st.openIn # NoTime /\ st.lunchStart # NoTime
        THEN [st EXCEPT !.totalMs = @ - Max(0, t - st.lunchStart), !.lunchStart = NoTime]
      ELSE IF e.type = "CLOCK_OUT" /\ st.openIn # NoTime
        THEN [st EXCEPT !.totalMs = @ + Max(0, t - st.openIn)
                                      - (IF st.lunchStart # NoTime THEN 30 * 60 * 1000 ELSE 0),
                        !.openIn = NoTime, !.lunchStart = NoTime]
      ELSE st

RECURSIVE summaryFold(_, _, _)
summaryFold(evs, i, st) ==
  IF i > Len(evs) THEN st ELSE summaryFold(evs, i + 1, summaryStep(st, evs[i]))

\* the summary of one user of the selected events
summaryOf(selected, userId) ==
  LET evs == SelectSeq(selected, LAMBDA e : e.userId = userId)
      st == summaryFold(evs, 1, [totalMs |-> 0, days |-> {}, openIn |-> NoTime, lunchStart |-> NoTime])
  IN  [userId |-> userId, hoursMs |-> Max(0, st.totalMs), daysWorked |-> Cardinality(st.days)]

\* the users of the selected events, in order of first appearance (byUser is a Map)
RECURSIVE usersInOrder(_, _, _)
usersInOrder(selected, i, seen) ==
  IF i > Len(selected) THEN seen
  ELSE usersInOrder(selected, i + 1,
         IF \E k \in 1..Len(seen) : seen[k] = selected[i].userId
           THEN seen ELSE Append(seen, selected[i].userId))

weeklySummaries(log, agency, from, to) ==
  LET selected == agencyRecords(log, agency, from, to, NoStr, "OK")
      users == usersInOrder(selected, 1, <<>>)
  IN  [k \in 1..Len(users) |-> summaryOf(selected, users[k])]

\* a request whose key is missing or matches no configured key: 401 from the hook
AgencyUnauthorized(token, route) ==
  /\ ~requireAgencyApiKey(answer.keys, token).ok
  /\ answer' = [answer EXCEPT !.call = @ + 1, !.token = token, !.route = route, !.status = 401,
                              !.agency = NoStr, !.userId = NoStr, !.filter = NoStr,
                              !.from = NoTime, !.to = NoTime, !.data = <<>>]
  /\ UNCHANGED <<now, ticks, events, tokens, userHits, ipHits, req, limiter, lastHit, agencyHits,
                 reply, report, signature, pdfCache, pdf, wifi, me>>

\* what the routes have in common once the hook has let the request in
agencyAnswer(token, ip, route, userId, status, from, to, data) ==
  LET auth == requireAgencyApiKey(answer.keys, token)
  IN  [answer EXCEPT !.call = @ + 1, !.token = token, !.route = route,
                     !.status = IF agencyAllowed(auth.keyId, ip, route) THEN 200 ELSE 429,
                     !.agency = auth.agency, !.userId = userId, !.filter = status,
                     !.from = from, !.to = to,
                     !.data = IF agencyAllowed(auth.keyId, ip, route) THEN data ELSE <<>>]

\* GET /time-records (limit and offset at their defaults) and GET /export/csv,
\* which runs the same query and prints its rows
TimeRecords(token, ip, route, userId, status, from, to) ==
  LET auth == requireAgencyApiKey(answer.keys, token)
  IN  /\ auth.ok
      /\ route \in {"time-records", "export-csv"}
      /\ enforceAgencyRateLimit(auth.keyId, ip, route)
      /\ answer' = agencyAnswer(token, ip, route, userId, status, from, to,
                                agencyRecords(events, auth.agency, from, to, userId, status))
      /\ UNCHANGED <<report, pdfCache, pdf>>

\* GET /weekly-summary
WeeklySummary(token, ip, from, to) ==
  LET auth == requireAgencyApiKey(answer.keys, token)
  IN  /\ auth.ok
      /\ enforceAgencyRateLimit(auth.keyId, ip, "weekly-summary")
      /\ answer' = agencyAnswer(token, ip, "weekly-summary", NoStr, "OK", from, to,
                                weeklySummaries(events, auth.agency, from, to))
      /\ UNCHANGED <<report, pdfCache, pdf>>

\* GET /timecard/daily-rows behind the hook; the rows go to `report`
DailyRows(token, ip, userId, from, to) ==
  LET auth == requireAgencyApiKey(answer.keys, token)
  IN  /\ auth.ok
      /\ TimecardDailyRows(auth.keyId, ip, userId, from, to)
      /\ answer' = agencyAnswer(token, ip, "timecard/daily-rows", userId, "OK", from, to, <<>>)

\* GET /timecard/pdf behind the hook; the bytes go to `pdf.served`
TimecardPdf(s, token, ip, userId, from, to) ==
  LET auth == requireAgencyApiKey(answer.keys, token)
  IN  /\ auth.ok
      /\ PdfLookup(s, auth.keyId, ip, userId, from, to)
      /\ answer' = agencyAnswer(token, ip, "timecard/pdf", userId, "OK", from, to, <<>>)

-----------------------------------------------------------------------------
(* SpecIsolation: after a day's work of u1 (PROLOGISTIX) and u2            *)
(* (STAFF_FORCE), requests to every route of the agency API with the key   *)
(* of either agency, an unknown key or none, in a deployment where both    *)
(* keys are configured or where the STAFF_FORCE key is empty               *)

IsoMaxCalls == 3

BearerTokens == {NoStr, "tokP", "tokS", "bogus"}

AgencyKeySets ==
  {[PROLOGISTIX |-> "tokP", STAFF_FORCE |-> "tokS"], [PROLOGISTIX |-> "tokP", STAFF_FORCE |-> NoStr]}

InitIsolation ==
  /\ now = WEEK0 + 17 * HOUR_MS
  /\ ticks = 0
  /\ events =
       <<dayEvent("u1", "CLOCK_IN", "OK", NoStr, WEEK0 + 8 * HOUR_MS, "s1", 1),
         dayEvent("u2", "CLOCK_IN", "OK", NoStr, WEEK0 + 8 * HOUR_MS + 5 * 60000, "s2", 2),
         dayEvent("u1", "CLOCK_OUT", "OK", NoStr, WEEK0 + 16 * HOUR_MS + 30 * 60000, "s3", 1),
         dayEvent("u2", "CLOCK_OUT", "OK", NoStr, WEEK0 + 16 * HOUR_MS + 35 * 60000, "s4", 2),
         dayEvent("u1", "CLOCK_OUT", "BLOCKED", "INVALID_STATE",
                  WEEK0 + 16 * HOUR_MS + 40 * 60000, "s5", 1)>>
  /\ tokens =
       <<[issuedToken(1, "u1", "d1", "uaA", WEEK0 + 7 * HOUR_MS) EXCEPT
            !.lastSeenAt = WEEK0 + 16 * HOUR_MS + 40 * 60000],
         [issuedToken(2, "u2", "d1", "uaA", WEEK0 + 7 * HOUR_MS) EXCEPT
            !.lastSeenAt = WEEK0 + 16 * HOUR_MS + 35 * 60000]>>
  /\ userHits = [u \in Users |->
       CASE u = "u1" -> <<WEEK0 + 16 * HOUR_MS + 40 * 60000>>
         [] u = "u2" -> <<WEEK0 + 16 * HOUR_MS + 35 * 60000>>
         [] OTHER -> <<>>]
  /\ ipHits = [k \in IpKeys |-> IF k = "ipA" THEN <<WEEK0 + 16 * HOUR_MS + 40 * 60000>> ELSE <<>>]
  /\ req = [s \in Slots |-> IdleReq]
  /\ limiter = NoLimiter
  /\ lastHit = NoHit
  /\ agencyHits = [l \in AgencyLimiters |-> [b \in AgencyBuckets |-> <<>>]]
  /\ reply = NoReply
  /\ report = NoReport
  /\ signature = NoSignature
  /\ pdfCache = <<>>
  /\ pdf = NoPdf
  /\ \E keys \in AgencyKeySets : answer = [NoAnswer EXCEPT !.keys = keys]
  /\ wifi = NoWifi
  /\ me = NoMe

IsoRequests ==
  /\ answer.call < IsoMaxCalls
  /\ \E token \in BearerTokens :
       \/ \E route \in AgencyRoutes : AgencyUnauthorized(token, route)
       \/ \E route \in {"time-records", "export-csv"}, status \in {NoStr, "OK"} :
            TimeRecords(token, "ipX", route, NoStr, status, WEEK0, WEEK0 + 7 * DAY_MS)
       \/ WeeklySummary(token, "ipX", WEEK0, WEEK0 + 7 * DAY_MS)
       \/ DailyRows(token, "ipX", "u1", WEEK0, WEEK0 + 7 * DAY_MS)
       \/ \E s \in PdfSlots : TimecardPdf(s, token, "ipX", "u1", WEEK0, WEEK0 + 7 * DAY_MS)

NextIsolation ==
  \/ IsoRequests
  \/ PdfWork

SpecIsolation == InitIsolation /\ [][NextIsolation]_vars

\* the log without the events of the other agencies
OnlyAgency(agency) == SelectSeq(events, LAMBDA e : e.agency = agency)

\* the token is missing, unknown, or the key it would match is not configured
BadToken(token) ==
  \/ token = NoStr
  \/ token \notin {answer.keys.PROLOGISTIX, answer.keys.STAFF_FORCE}

\* the agency whose configured key the token is
AgencyOfToken(token) ==
  IF token = answer.keys.PROLOGISTIX THEN "PROLOGISTIX" ELSE "STAFF_FORCE"

\* what was returned is what the log of the agency alone gives
IsolatedAnswer ==
  answer.status = 200 =>
    /\ answer.agency = AgencyOfToken(answer.token)
    /\ answer.route \in {"time-records", "export-csv"} =>
         /\ \A i \in 1..Len(answer.data) : answer.data[i].agency = answer.agency
         /\ answer.data = agencyRecords(OnlyAgency(answer.agency), answer.agency,
                                        answer.from, answer.to, answer.userId, answer.filter)
    /\ answer.route = "weekly-summary" =>
         answer.data = weeklySummaries(OnlyAgency(answer.agency), answer.agency, answer.from, answer.to)

IsolatedReport ==
  report.builder = "daily" =>
    /\ report.agency \in {AgencyOfToken(t) : t \in {"tokP", "tokS"}}
    /\ report.rows = buildDailyRows(OnlyAgency(report.agency), report.agency, report.userId,
                                    report.from, report.to).rows

IsolatedPdf ==
  \A j \in 1..Len(pdf.served) :
    LET v == pdf.served[j]
    IN  v.bytes = pdfBytes(v.agency, v.cacheKey[Len(v.cacheKey) - 3], v.cacheKey[Len(v.cacheKey) - 2],
                           buildDailyRows(OnlyAgency(v.agency), v.agency,
                                          v.cacheKey[Len(v.cacheKey) - 3],
                                          v.cacheKey[Len(v.cacheKey) - 2],
                                          v.cacheKey[Len(v.cacheKey) - 1]))

-----------------------------------------------------------------------------
(* C31: agency isolation.  Whatever is returned to a request authenticated *)
(* with the key of agency A -- records, summaries, daily rows, a PDF fresh *)
(* or from the cache -- is computed from the events of agency A only; a    *)
(* request whose key is missing, unknown or not configured is answered 401 *)
(* and only those are, before any limiter hit, cache access or data read.  *)

C31_AgencyIsolation ==
  /\ [](IsolatedAnswer /\ IsolatedReport /\ IsolatedPdf)
  /\ [][answer'.call # answer.call =>
       /\ answer'.status = 401 <=> BadToken(answer'.token)
       /\ answer'.status = 401 =>
            /\ answer'.data = <<>>
            /\ UNCHANGED <<agencyHits, reply, report, pdfCache, pdf>>
       /\ answer'.status # 401 => reply'.call = reply.call + 1]_vars

\* STAFF_FORCE was served the PDF of u1's week after PROLOGISTIX had been:
\* a MISS, and the page without hours; then a request with an unknown key
\* was turned away
C31_Witness ==
  /\ Len(pdf.served) = 2
  /\ pdf.served[1].agency = "PROLOGISTIX" /\ pdf.served[1].bytes.totals.hoursMs > 0
  /\ pdf.served[2].agency = "STAFF_FORCE" /\ pdf.served[2].xCache = "MISS"
  /\ pdf.served[2].bytes.totals.hoursMs = 0
  /\ answer.status = 401

-----------------------------------------------------------------------------
(* C32: GET /staffing/me/state reports signatureRequired = TRUE with       *)
(* shiftId the id of the user's latest OK event exactly when that event is *)
(* a CLOCK_OUT carrying no signature, and signatureRequired = FALSE with   *)
(* shiftId null in every other case; a CLOCK_IN that follows an unsigned   *)
(* CLOCK_OUT is never rejected by the sequencing gate.                     *)

\* positions of the latest OK events of userId in log
LatestOK(log, userId) ==
  {i \in 1..Len(log) :
     /\ log[i].userId = userId /\ log[i].status = "OK"
     /\ \A j \in 1..Len(log) :
          (log[j].userId = userId /\ log[j].status = "OK") =>
            log[j].serverTimestamp <= log[i].serverTimestamp}

\* the latest OK event of userId in log is a CLOCK_OUT without a signature
AwaitsSignature(log, userId) ==
  \E i \in LatestOK(log, userId) :
    log[i].type = "CLOCK_OUT" /\ log[i].signedAt = NoTime /\ log[i].signaturePngBase64 = NoStr

C32_SignatureRequired ==
  /\ \A u \in Users :
       LET sig == signatureOf(events, u)
       IN  IF AwaitsSignature(events, u)
             THEN sig.signatureRequired /\ sig.shiftId \in LatestOK(events, u)
             ELSE ~sig.signatureRequired /\ sig.shiftId = NoId
  /\ \A s \in Slots :
       (/\ DonePunch(s) /\ req[s].in.type = "CLOCK_IN"
        /\ AwaitsSignature(LogBefore(req[s].attempt), req[s].in.userId)) =>
         req[s].response # "INVALID_STATE"

-----------------------------------------------------------------------------
(* C33: a caller rejected by a limiter with retryAfterSeconds = r that     *)
(* hits the same key again exactly r seconds later, with no other hit on   *)
(* the key in between, is allowed, also when the remaining wait is a whole *)
(* number of seconds; a rejected hit never reports retryAfterSeconds = 0.  *)

\* the hit being made is the retry of the rejected one before it, made
\* exactly when that one said to come back
RetryOnTime ==
  /\ lastHit.call > 0 /\ ~lastHit.allowed
  /\ lastHit'.key = lastHit.key
  /\ lastHit'.at = lastHit.at + 1000 * lastHit.retryAfterSeconds

C33_RetryAfter ==
  [][lastHit'.call # lastHit.call =>
       /\ ~lastHit'.allowed => lastHit'.retryAfterSeconds > 0
       /\ RetryOnTime => lastHit'.allowed]_vars

\* the second half alone: the retry made on time is allowed
C33_RetryAllowed ==
  [][(lastHit'.call # lastHit.call /\ RetryOnTime /\ lastHit.retryAfterSeconds > 0)
       => lastHit'.allowed]_vars

-----------------------------------------------------------------------------
(* C34: for every limiter and key, after any sequence of hits at           *)
(* non-decreasing times, the bucket holds at most maxHits timestamps in    *)
(* non-decreasing order, a disallowed hit adds no timestamp, and the       *)
(* allowed hits whose time lies in any interval of length windowMs are     *)
(* never more than maxHits.                                                *)

\* the allowed hits on key made in the interval [from, from + windowMs]
GrantedWithin(key, from) ==
  {j \in 1..Len(lastHit.granted) :
     /\ lastHit.granted[j].key = key
     /\ from <= lastHit.granted[j].at /\ lastHit.granted[j].at <= from + limiter.windowMs}

\* ts is what is left of before after dropping some of its oldest entries
IsSuffix(ts, before) ==
  /\ Len(ts) <= Len(before)
  /\ ts = SubSeq(before, Len(before) - Len(ts) + 1, Len(before))

C34_BucketBound ==
  /\ \A key \in LimiterKeys :
       LET ts == limiter.buckets[key]
       IN  /\ Len(ts) <= limiter.maxHits
           /\ \A i \in 1..Len(ts) - 1 : ts[i] <= ts[i + 1]
           /\ \A j \in 1..Len(lastHit.granted) :
                lastHit.granted[j].key = key =>
                  Cardinality(GrantedWithin(key, lastHit.granted[j].at)) <= limiter.maxHits
  /\ (lastHit.call > 0 /\ ~lastHit.allowed) =>
       IsSuffix(limiter.buckets[lastHit.key], lastHit.before)
  /\ (lastHit.call > 0 /\ lastHit.allowed) =>
       /\ Len(limiter.buckets[lastHit.key]) > 0
       /\ limiter.buckets[lastHit.key] =
            Append(SubSeq(limiter.buckets[lastHit.key], 1, Len(limiter.buckets[lastHit.key]) - 1),
                   lastHit.at)
       /\ IsSuffix(SubSeq(limiter.buckets[lastHit.key], 1, Len(limiter.buckets[lastHit.key]) - 1),
                   lastHit.before)

\* key a was hit maxHits times, refused, and allowed again after the window
C34_Witness ==
  /\ lastHit.call > limiter.maxHits + 1 /\ lastHit.key = "a" /\ lastHit.allowed
  /\ Cardinality({j \in 1..Len(lastHit.granted) : lastHit.granted[j].key = "a"}) = limiter.maxHits + 1
  /\ Len(lastHit.granted) < lastHit.call
  /\ Len(limiter.buckets["a"]) = 1

-----------------------------------------------------------------------------
(* C35: a request rejected by a composed rate limit consumes no quota:     *)
(* when one limiter of an agency endpoint disallows the request, none of   *)
(* the other limiters records a timestamp for it.                          *)

C35_RejectedTakesNoQuota ==
  [][(reply'.call # reply.call /\ reply'.status = 429) =>
       \A l \in AgencyLimiters : \A b \in AgencyBuckets :
         IsSuffix(agencyHits'[l][b], agencyHits[l][b])]_vars

-----------------------------------------------------------------------------
(* C36: every event of the log has a reason exactly when it is BLOCKED,    *)
(* and every OK event has a device id, an idempotency key, a punchTokenId  *)
(* of a token of the same user and device that was neither revoked nor     *)
(* expired at the event's serverTimestamp, and a verification method other *)
(* than none that matches the channel results.                             *)

\* the token row tok was in force at time t: it expires later and is not
\* recorded as revoked before t
InForceAt(tok, t) ==
  /\ tok.expiresAt > t
  /\ tok.revokedAt = NoTime \/ tok.revokedAt >= t

MethodOfChannels(in) ==
  IF wifiOk(in) /\ locOk(in) THEN "both"
  ELSE IF wifiOk(in) THEN "wifi"
  ELSE IF locOk(in) THEN "location"
  ELSE "none"

C36_EventInvariants ==
  /\ \A i \in 1..Len(events) :
       LET e == events[i]
       IN  /\ e.reason # NoStr <=> e.status = "BLOCKED"
           /\ e.status = "OK" =>
                /\ e.deviceId # NoStr /\ e.idempotencyKey # NoStr
                /\ e.verificationMethod # "none"
                /\ e.punchTokenId \in 1..Len(tokens)
                /\ tokens[e.punchTokenId].userId = e.userId
                /\ tokens[e.punchTokenId].deviceId = e.deviceId
                /\ InForceAt(tokens[e.punchTokenId], e.serverTimestamp)
  /\ \A s \in Slots : \A i \in 1..Len(events) :
       (DonePunch(s) /\ events[i].attempt = req[s].attempt) =>
         events[i].verificationMethod = MethodOfChannels(req[s].in)

\* the same without the demand that the token was not yet revoked
C36_ButRevocation ==
  /\ \A i \in 1..Len(events) :
       LET e == events[i]
       IN  /\ e.reason # NoStr <=> e.status = "BLOCKED"
           /\ e.status = "OK" =>
                /\ e.deviceId # NoStr /\ e.idempotencyKey # NoStr
                /\ e.verificationMethod # "none"
                /\ e.punchTokenId \in 1..Len(tokens)
                /\ tokens[e.punchTokenId].userId = e.userId
                /\ tokens[e.punchTokenId].deviceId = e.deviceId
                /\ tokens[e.punchTokenId].expiresAt > e.serverTimestamp
  /\ \A s \in Slots : \A i \in 1..Len(events) :
       (DonePunch(s) /\ events[i].attempt = req[s].attempt) =>
         events[i].verificationMethod = MethodOfChannels(req[s].in)

-----------------------------------------------------------------------------
(* SpecRace: u1, clocked out and holding a token, sends two punches with   *)
(* different idempotency keys whose handlers run side by side              *)

RaceMaxEvents == 2

RaceConf(key) ==
  [users |-> {"u1"}, types |-> {"CLOCK_IN", "CLOCK_OUT"}, ips |-> {"ipA"}, geos |-> {NoGeo},
   devices |-> {"d1"}, keys |-> {key}, clientTimes |-> {NoTime}, rawTokens |-> {1},
   userAgents |-> {"uaA"}, maxEvents |-> RaceMaxEvents]

NextRace ==
  \/ PunchSteps(1, RaceConf("k1"))
  \/ PunchSteps(2, RaceConf("k2"))
  \/ Return(1)
  \/ Return(2)

SpecRace == InitAfter(0, OneToken) /\ [][NextRace]_vars

-----------------------------------------------------------------------------
(* C37: under concurrent punches of one user with distinct idempotency     *)
(* keys the user's OK events, in timestamp order, still form a path of the *)
(* transition table: never two CLOCK_INs without a CLOCK_OUT between them, *)
(* never a LUNCH_START or LUNCH_END outside an open shift, and the derived *)
(* state never has onLunch without clockedIn.                              *)

\* every event of ok from position i on is a listed transition of the table
RECURSIVE OnTableFrom(_, _, _)
OnTableFrom(ok, i, st) ==
  IF i > Len(ok) THEN TRUE
  ELSE /\ TableStep(st, ok[i]).name # TableLapse(st, ok[i].serverTimestamp).name
       /\ OnTableFrom(ok, i + 1, TableStep(st, ok[i]))

OKEventsOf(userId) ==
  SortSeq(SelectSeq(events, LAMBDA e : e.userId = userId /\ e.status = "OK"), byServerTimestamp)

C37_ConcurrentPath ==
  \A u \in Users :
    /\ OnTableFrom(OKEventsOf(u), 1, [name |-> "OUT", lunchStartAt |-> NoTime])
    /\ MeState(u, now).onLunch => MeState(u, now).clockedIn

-----------------------------------------------------------------------------
(* C38: a punch is rejected with REUSED_IDEMPOTENCY_KEY only if the same   *)
(* user already has an OK event carrying that key within the trailing 24   *)
(* hours; a key seen only on BLOCKED events, or only on another user's     *)
(* events, does not cause the rejection.                                   *)

\* the log as the request in slot s found it holds an OK event of the same
\* user with the same key, not older than 24 hours
KeyUsedBefore(s) ==
  \E i \in 1..Len(events) :
    /\ events[i].attempt # req[s].attempt
    /\ events[i].userId = req[s].in.userId
    /\ events[i].status = "OK"
    /\ events[i].idempotencyKey = req[s].in.idempotencyKey
    /\ events[i].createdAt >= req[s].idemCutoff

C38_ReuseOnlyAfterOK ==
  \A s \in Slots :
    (DonePunch(s) /\ req[s].response = "REUSED_IDEMPOTENCY_KEY") => KeyUsedBefore(s)

-----------------------------------------------------------------------------
(* C39: whenever the verification label of a day is a transition from A to *)
(* B, A and B are different methods; a day whose methods are Wi-Fi,        *)
(* Location, Wi-Fi is not labelled as a transition from Wi-Fi to Wi-Fi.    *)

C39_TransitionEndsDiffer ==
  Reported =>
    \A i \in 1..Len(report.rows) :
      Len(report.rows[i].verifiedVia) = 2 =>
        report.rows[i].verifiedVia[1] # report.rows[i].verifiedVia[2]

\* the shift of the claim: in by Wi-Fi, lunch by location, out by Wi-Fi
C39_WifiLocationWifi ==
  ~(/\ Reported
    /\ Len(events) = 4
    /\ events[1].verificationMethod = "wifi" /\ events[2].verificationMethod = "location"
    /\ events[3].verificationMethod = "location" /\ events[4].verificationMethod = "wifi"
    /\ report.rows[1].verifiedVia = <<"Wi-Fi", "Wi-Fi">>)

-----------------------------------------------------------------------------
(* SpecEquiv: the logs of SpecWeekly up to EquivMaxEvents events; u1      *)
(* signs, then the timecard of u1 is asked for by u1 or by an agency       *)

EquivMaxEvents == 3

EquivSignature ==
  /\ signature.call < 1
  /\ report.call + reply.call = 0
  /\ \E shiftId \in 1..Len(events) : AttachSignature("u1", shiftId, SigA)

EquivMyTimes ==
  /\ report.call + reply.call < 1
  /\ \E from \in WeekFroms, span \in WeekSpans : MyTimes("u1", from, from + span)

EquivDailyRows ==
  /\ report.call + reply.call < 1
  /\ \E keyId \in {"keyP", "keyS"}, from \in WeekFroms, span \in WeekSpans :
       TimecardDailyRows(keyId, "ipX", "u1", from, from + span)
  /\ UNCHANGED answer

NextEquiv ==
  \/ EquivSignature
  \/ EquivMyTimes
  \/ EquivDailyRows

SpecEquiv == InitWeek(EquivMaxEvents) /\ [][NextEquiv]_vars

-----------------------------------------------------------------------------
(* C40: buildWeeklyDailyRows (employee portal) and buildDailyRows (agency  *)
(* API) are equivalent: for the same user and range, over a log in which   *)
(* all of the user's events belong to the requesting agency, they return   *)
(* the same seven rows (date, shift, timeIn, timeOut, lunchMinutes, hours, *)
(* verifiedVia, signed) and the same totals.                               *)

\* the fields of a row the two builders have in common
RowFields(r) ==
  [date |-> r.date, shift |-> r.shift, timeIn |-> r.timeIn, timeOut |-> r.timeOut,
   lunchMinutes |-> r.lunchMinutes, hoursMs |-> r.hoursMs, verifiedVia |-> r.verifiedVia,
   signed |-> r.signed]

RowsOf(built) == [i \in 1..Len(built.rows) |-> RowFields(built.rows[i])]

\* every event of userId in the log belongs to agency
AllOfAgency(userId, agency) ==
  \A i \in 1..Len(events) : events[i].userId = userId => events[i].agency = agency

====
